---------------------------- MODULE Spec2Model ----------------------------
(***************************************************************************)
(* A model of pylibschc: the device registry and rule deployment of        *)
(* libschc.pyx / rules.c, the timer-task wrapper of the fragmentation      *)
(* connection, the SCHC compression and fragmentation engine the wrapper   *)
(* drives, and the BitArray.                                               *)
(***************************************************************************)
EXTENDS Integers, Sequences, FiniteSets, TLC

(***************************************************************************)
(* Bounds of the model.                                                    *)
(***************************************************************************)
MaxObjs == 2
MaxDevId == 2

(***************************************************************************)
(* Program constants (schc_config.h).                                      *)
(***************************************************************************)
MAX_FIELD_LENGTH == 32
IP6_FIELDS == 14

Objs == 1..MaxObjs
DevIds == 1..MaxDevId

(***************************************************************************)
(* Part 1.  The device registry (libschc.pyx, class Device; rules.c).      *)
(*                                                                         *)
(* obj_state[o]   the Python object in slot o: "live", or "free" when the   *)
(*                slot holds no object (none constructed, or deallocated)  *)
(* dev_id[o]      o._dev.device_id                                         *)
(* devices        the engine's array of device pointers: its first         *)
(*                DEVICE_COUNT entries (the code reads no entry past them) *)
(* devices_null   clibschc.devices is NULL                                 *)
(* DEVICE_COUNT   clibschc.DEVICE_COUNT                                    *)
(* py_devices     Device._devices, 0 where the key is absent               *)
(* cctx[o]        o._dev.compression_context / compression_rule_count:     *)
(*                set = pointer not NULL, freed = the pointee was freed    *)
(* fctx[o]        o._dev.fragmentation_context / fragmentation_rule_count  *)
(* double_free    some context was passed to free() twice                  *)
(* last           the last operation and its outcome (history)             *)
(***************************************************************************)
VARIABLES obj_state, dev_id, devices, devices_null, DEVICE_COUNT, py_devices,
          cctx, fctx, double_free, last

regVars == <<obj_state, dev_id, devices, devices_null, DEVICE_COUNT,
             py_devices, cctx, fctx, double_free, last>>

(***************************************************************************)
(* State of part 2, the fragmentation connection wrapper and its timer     *)
(* tasks (libschc.pyx, classes FragmentationConnection and _TimerTask).    *)
(*                                                                         *)
(* wr[w]      the wrapper object w: live until it is deallocated and gone  *)
(*            after, _malloced, _frag_conn (0 for NULL, else the inner     *)
(*            connection), whether its ops have a remove_timer_entry       *)
(*            callback, the address the object is at, and stale once the   *)
(*            deallocated object was handed out again by input()           *)
(* inner[c]   the inner schc_fragmentation_t c: used (initialised or       *)
(*            handed out by the pool), timer_ctx (0 for NULL, else the     *)
(*            address of a wrapper, which may be gone), and the transfer   *)
(*            and the rule the engine has bound it to                      *)
(* timers     the timer tasks the scheduler holds: the _TimerTask fields   *)
(*            _conn, _timer_task_ptr and _arg, whether _arg was reset      *)
(*            after the task was posted (history), and the stage: "armed", *)
(*            "expired" once the delay has passed and the task waits to    *)
(*            run, or "done" once it has run                               *)
(* tlast      the last timer operation and its outcome (history)           *)
(***************************************************************************)
VARIABLES wr, inner, timers, tlast

timerVars == <<wr, inner, timers, tlast>>

(***************************************************************************)
(* State of part 3, compression and decompression (libschc.pyx, class      *)
(* CompressorDecompressor and the rule deployment of class Device).        *)
(*                                                                         *)
(* cdev     the device: the rule list assigned to compression_rules        *)
(*          (py_rules), the deployed compression_context with its          *)
(*          compression_rule_count, uncomp_rule_id and                     *)
(*          uncomp_rule_id_size_bits                                       *)
(* cpkt     the packet handed to compress (bytes)                          *)
(* cdir     the direction handed to compress and decompress                *)
(* cphase   "start", "compressed", "decompressed", "raised" (ValueError),  *)
(*          "buffered" (a BitArray of received bytes exists), "received"   *)
(*          (decompress of that BitArray returned)                         *)
(*          or "crashed" (the process died of a write past a buffer)       *)
(* cres     what compress returned: the CompressionResult, the index of    *)
(*          the rule the engine returned (0 for NULL), whether the engine  *)
(*          wrote past the end of the buffer                               *)
(* cbits    the BitArray compress returned, or that of received bytes      *)
(* cout     the bytes decompress returned                                  *)
(***************************************************************************)
VARIABLES cdev, cpkt, cdir, cphase, cres, cbits, cout

compVars == <<cdev, cpkt, cdir, cphase, cres, cbits, cout>>

(***************************************************************************)
(* State of part 4, fragmentation and reassembly (libschc.pyx, class       *)
(* FragmentationConnection, and the engine's state machines).              *)
(*                                                                         *)
(* ftx    the sender's connection: TX_STATE, the mode of its rule, the     *)
(*        packet (the bytes of the BitArray bit_arr is bound to), bit_arr  *)
(*        ("set", or "NULL" after del bit_arr), the payload bytes of a     *)
(*        fragment (mtu less the header), the window, the next fragment    *)
(*        to send, the attempts of the window and the bitmap of the last   *)
(*        ACK                                                              *)
(* frx    the receiver's connection: RX_STATE, the mode of its rule, the   *)
(*        window, its bitmap, the bytes of the completed windows, the      *)
(*        tiles of the window and the last fragment of the packet          *)
(* up     the datagrams in flight from the sender to the receiver          *)
(* down   the ACKs in flight from the receiver to the sender               *)
(* fh     history: whether init_tx ran and raised, whether a datagram      *)
(*        overtook another (of another window), whether an ACK was lost    *)
(*        or reached the sender, the retransmission rounds, the buffers    *)
(*        handed to end_rx, the packets received unfragmented, whether a   *)
(*        payload byte was corrupted in flight, whether the receiver took  *)
(*        a corrupted fragment, whether it sent a negative ACK after a     *)
(*        failed MIC check, the calls of end_tx, the number of times       *)
(*        reassemble returned COMPLETED, whether bit_arr was assigned or   *)
(*        deleted after fragment() had started the transfer, whether the   *)
(*        engine read a NULL bit_arr (the process died), whether           *)
(*        fragment() raised on a connection without a rule                 *)
(***************************************************************************)
VARIABLES ftx, frx, up, down, fh

fragVars == <<ftx, frx, up, down, fh>>

(***************************************************************************)
(* State of part 5, a BitArray (libschc.pyx, class BitArray).              *)
(*                                                                         *)
(* ba     the BitArray: size (bytes allocated), the bits of its memory,    *)
(*        and offset, padding, len and bit_len of its schc_bitarray_t      *)
(* bh     history: whether the BitArray exists ("none", "live") or the     *)
(*        process died ("crashed"), the number of calls made on it,        *)
(*        whether compress filled it, whether size was assigned, the       *)
(*        BitArray before the last call,                                   *)
(*        the last call (arguments, result, value returned) and the call   *)
(*        before it                                                        *)
(***************************************************************************)
VARIABLES ba, bh

bitVars == <<ba, bh>>

(***************************************************************************)
(* State of part 6, the deployment of rules (libschc.pyx, Device._set_*;   *)
(* rules.c) and the send hook of a connection.                            *)
(*                                                                         *)
(* dp     the last call and what it left: the arguments, whether it        *)
(*        raised, and the C structures it wrote (history)                  *)
(***************************************************************************)
VARIABLES dp

deployVars == <<dp>>

vars == <<regVars, timerVars, compVars, fragVars, bitVars, deployVars>>

\* A compression rule as far as deployment looks at it: its ID, the number of
\* field descriptors of its IPv6 layer and the length in bytes of the longest
\* target value.
PyRules == [rule_id : 1..2, nfields : {1, IP6_FIELDS + 1},
            tvlen : {1, MAX_FIELD_LENGTH + 1}]

GoodRule == [rule_id |-> 1, nfields |-> 1, tvlen |-> 1]
GoodRule2 == [rule_id |-> 2, nfields |-> 1, tvlen |-> 1]
LongValueRule == [rule_id |-> 2, nfields |-> 1, tvlen |-> MAX_FIELD_LENGTH + 1]
ManyFieldsRule == [rule_id |-> 2, nfields |-> IP6_FIELDS + 1, tvlen |-> 1]

\* The rule lists assigned to Device.compression_rules.
RuleLists == { <<>>, <<GoodRule>>, <<GoodRule2, LongValueRule>>,
               <<ManyFieldsRule>> }

NullCtx == [set |-> FALSE, freed |-> FALSE, rules |-> <<>>, count |-> 0]

\* Device._set_field: the target value must fit MAX_FIELD_LENGTH.
set_field_ok(r) == ~(r.tvlen > MAX_FIELD_LENGTH)

\* Device._set_layer_rule: at most max_fields descriptors, each accepted by
\* _set_field.
set_layer_rule_ok(r, max_fields) ==
    /\ ~(r.nfields > max_fields)
    /\ set_field_ok(r)

\* Device._set_compression_rule raises ValueError iff a layer is rejected.
set_compression_rule_ok(r) == set_layer_rule_ok(r, IP6_FIELDS)

\* schc_rules_free_compr_ctx(ctx, count): the pointee is freed; the caller's
\* pointer is not touched.  free(NULL) is a no-op.
schc_rules_free_compr_ctx(c) ==
    IF c.set THEN [c EXCEPT !.freed = TRUE] ELSE c

IsDoubleFree(c) == c.set /\ c.freed

\* compression_rules.__del__: free unconditionally, then NULL / 0.
del_compression_rules(c) == NullCtx

\* compression_rules.__set__: the old context is freed first; a new context
\* replaces it only if every rule was accepted.
set_compression_rules(c, rules) ==
    LET c1 == IF c.set THEN schc_rules_free_compr_ctx(c) ELSE c
    IN IF rules # <<>>
       THEN IF \A i \in 1..Len(rules) : set_compression_rule_ok(rules[i])
            THEN [set |-> TRUE, freed |-> FALSE, rules |-> rules,
                  count |-> Len(rules)]
            ELSE c1
       ELSE NullCtx

set_compression_rules_raises(rules) ==
    \E i \in 1..Len(rules) : ~set_compression_rule_ok(rules[i])

\* The numbers of rules assigned to Device.fragmentation_rules: an empty
\* list, or a list of one rule.
FragRuleCounts == 0..1

\* The object slots whose device is given fragmentation rules: the first
\* one, which every device that is created while no other lives takes.
FragObjs == {1}

NullFctx == [set |-> FALSE, freed |-> FALSE, count |-> 0]

\* fragmentation_rules.__del__: free unconditionally, then NULL / 0.
del_fragmentation_rules(c) == NullFctx

\* fragmentation_rules.__set__ with n rules: the old context is freed
\* (schc_rules_free_frag_ctx) and a new one of n rules takes its place; None
\* and the empty list give NULL / 0.
set_fragmentation_rules(c, n) ==
    IF n > 0 THEN [set |-> TRUE, freed |-> FALSE, count |-> n]
    ELSE NullFctx

\* fragmentation_rules.__set__ with a list one of whose rules raises in
\* _set_fragmentation_rule: the old context is freed, and the exception
\* leaves the pointer and the count as they were.
set_fragmentation_rules_raising(c) ==
    IF c.set THEN [c EXCEPT !.freed = TRUE] ELSE c

\* The index of the first entry of the device array whose device_id is id,
\* 0 if there is none (the loops of _register and _unregister).
FindById(devs, count, ids, id) ==
    IF \E i \in 1..count : ids[devs[i]] = id
    THEN CHOOSE i \in 1..count :
             /\ ids[devs[i]] = id
             /\ \A j \in 1..(i - 1) : ids[devs[j]] # id
    ELSE 0

ShiftOutLast(devs, count, i) == [j \in 1..(count - 1) |-> devs[j]]

\* devices[j] = devices[j + 1] for j in i .. count - 2, and one entry less.
ShiftOut(devs, count, i) ==
    [j \in 1..(count - 1) |-> IF j >= i THEN devs[j + 1] ELSE devs[j]]

\* The registry as one record, to thread it through _register/_unregister.
Registry == [devices |-> devices, devices_null |-> devices_null,
             DEVICE_COUNT |-> DEVICE_COUNT, py_devices |-> py_devices,
             cctx |-> cctx, double_free |-> double_free]

\* Device._unregister: nothing if the array is NULL; else the object's rules
\* are deleted, the first entry with the object's device_id is shifted out,
\* the array is freed when it became empty, and the ID's key is deleted from
\* Device._devices.
unregister(R, o, id) ==
    IF R.devices_null THEN R
    ELSE
      LET c0 == R.cctx[o]
          i == FindById(R.devices, R.DEVICE_COUNT, dev_id, id)
          cnt == IF i # 0 THEN R.DEVICE_COUNT - 1 ELSE R.DEVICE_COUNT
          devs == IF i # 0 THEN ShiftOut(R.devices, R.DEVICE_COUNT, i)
                  ELSE R.devices
      IN [devices |-> IF cnt = 0 THEN <<>> ELSE devs,
          devices_null |-> (cnt = 0),
          DEVICE_COUNT |-> cnt,
          py_devices |-> [R.py_devices EXCEPT ![id] = 0],
          cctx |-> [R.cctx EXCEPT ![o] = del_compression_rules(c0)],
          double_free |-> (R.double_free \/ IsDoubleFree(c0))]

register_raises_unchecked(R, id) == FALSE

\* Device._register raises ValueError iff a registered device has the ID.
register_raises(R, id) ==
    FindById(R.devices, R.DEVICE_COUNT, dev_id, id) # 0

\* Device._register when it does not raise: a new array one longer than
\* DEVICE_COUNT, the old entries copied, the object appended.
register(R, o, id) ==
    [R EXCEPT !.devices = SubSeq(R.devices, 1, R.DEVICE_COUNT) \o <<o>>,
              !.devices_null = FALSE,
              !.DEVICE_COUNT = R.DEVICE_COUNT + 1,
              !.py_devices = [R.py_devices EXCEPT ![id] = o]]

SetRegistry(R) ==
    /\ devices' = R.devices
    /\ devices_null' = R.devices_null
    /\ DEVICE_COUNT' = R.DEVICE_COUNT
    /\ py_devices' = R.py_devices
    /\ cctx' = R.cctx
    /\ double_free' = R.double_free

\* The set of objects registered in the engine's device array.
Registered == { devices[i] : i \in 1..DEVICE_COUNT }

\* Device.get(id): the object, or 0 for KeyError.
Device_get(id) == py_devices[id]

InitRegistry ==
    /\ obj_state = [o \in Objs |-> "free"]
    /\ dev_id = [o \in Objs |-> 0]
    /\ devices = <<>>
    /\ devices_null = TRUE
    /\ DEVICE_COUNT = 0
    /\ py_devices = [i \in DevIds |-> 0]
    /\ cctx = [o \in Objs |-> NullCtx]
    /\ fctx = [o \in Objs |-> NullFctx]
    /\ double_free = FALSE
    /\ last = [op |-> "init", ok |-> TRUE]

\* The registry actions leave the rest of the state alone.
RegistryOnly ==
    UNCHANGED <<timerVars, compVars, fragVars, bitVars, deployVars>>

\* Device(device_id): __cinit__ stores the ID and registers.  When _register
\* raises, the half-constructed object is deallocated at once, which runs
\* __dealloc__ and with it _unregister.
DeviceNew(o, id) ==
    /\ RegistryOnly
    /\ obj_state[o] = "free"
    /\ \A p \in 1..(o - 1) : obj_state[p] # "free"
    /\ IF register_raises(Registry, id)
       THEN /\ SetRegistry(unregister(Registry, o, id))
            /\ UNCHANGED <<obj_state, dev_id, fctx>>
            /\ last' = [op |-> "new", obj |-> o, id |-> id, ok |-> FALSE,
                        holder |-> devices[FindById(devices, DEVICE_COUNT,
                                                    dev_id, id)],
                        holder_get |-> py_devices[id],
                        holder_ctx |-> cctx[devices[FindById(devices,
                                           DEVICE_COUNT, dev_id, id)]],
                        count |-> DEVICE_COUNT]
       ELSE /\ SetRegistry(register(Registry, o, id))
            /\ obj_state' = [obj_state EXCEPT ![o] = "live"]
            /\ dev_id' = [dev_id EXCEPT ![o] = id]
            /\ last' = [op |-> "new", ok |-> TRUE]
            /\ UNCHANGED fctx

\* Device.unregister()
DeviceUnregister(o) ==
    /\ RegistryOnly
    /\ obj_state[o] = "live"
    /\ SetRegistry(unregister(Registry, o, dev_id[o]))
    /\ last' = [op |-> "unregister", ok |-> TRUE, obj |-> o,
                id |-> dev_id[o], was_null |-> devices_null,
                had_cctx |-> cctx[o].set, had_fctx |-> fctx[o].set]
    /\ UNCHANGED <<obj_state, dev_id, fctx>>

\* Deallocation of a live object nothing refers to any more: Device._devices
\* keeps every object it holds alive.  The slot becomes free again; the
\* fields of the dead object are never read again and are recorded as zero.
DeviceDealloc(o) ==
    /\ RegistryOnly
    /\ obj_state[o] = "live"
    /\ \A i \in DevIds : py_devices[i] # o
    /\ LET R == unregister(Registry, o, dev_id[o])
       IN SetRegistry([R EXCEPT !.cctx[o] = NullCtx])
    /\ obj_state' = [obj_state EXCEPT ![o] = "free"]
    /\ dev_id' = [dev_id EXCEPT ![o] = 0]
    /\ fctx' = [fctx EXCEPT ![o] = NullFctx]
    /\ last' = [op |-> "dealloc", ok |-> TRUE]

\* device.compression_rules = rules
SetCompressionRules(o, rules) ==
    /\ RegistryOnly
    /\ obj_state[o] = "live"
    /\ cctx' = [cctx EXCEPT ![o] = set_compression_rules(cctx[o], rules)]
    /\ double_free' = (double_free \/ IsDoubleFree(cctx[o]))
    /\ last' = IF set_compression_rules_raises(rules)
               THEN [op |-> "set_rules", ok |-> FALSE, obj |-> o,
                     before |-> cctx[o]]
               ELSE [op |-> "set_rules", ok |-> TRUE]
    /\ UNCHANGED <<obj_state, dev_id, devices, devices_null, DEVICE_COUNT,
                   py_devices, fctx>>

\* del device.compression_rules
DelCompressionRules(o) ==
    /\ RegistryOnly
    /\ obj_state[o] = "live"
    /\ cctx' = [cctx EXCEPT ![o] = del_compression_rules(cctx[o])]
    /\ double_free' = (double_free \/ IsDoubleFree(cctx[o]))
    /\ last' = [op |-> "del_rules", ok |-> TRUE]
    /\ UNCHANGED <<obj_state, dev_id, devices, devices_null, DEVICE_COUNT,
                   py_devices, fctx>>

\* device.fragmentation_rules = rules, with n rules
SetFragmentationRules(o, n) ==
    /\ RegistryOnly
    /\ obj_state[o] = "live"
    /\ fctx' = [fctx EXCEPT ![o] = set_fragmentation_rules(fctx[o], n)]
    /\ double_free' = (double_free \/ IsDoubleFree(fctx[o]))
    /\ last' = [op |-> "set_frag_rules", ok |-> TRUE]
    /\ UNCHANGED <<obj_state, dev_id, devices, devices_null, DEVICE_COUNT,
                   py_devices, cctx>>

\* device.fragmentation_rules = rules, with a rule that raises
SetFragmentationRulesRaising(o) ==
    /\ RegistryOnly
    /\ obj_state[o] = "live"
    /\ fctx' = [fctx EXCEPT ![o] = set_fragmentation_rules_raising(fctx[o])]
    /\ double_free' = (double_free \/ IsDoubleFree(fctx[o]))
    /\ last' = [op |-> "set_frag_rules", ok |-> FALSE]
    /\ UNCHANGED <<obj_state, dev_id, devices, devices_null, DEVICE_COUNT,
                   py_devices, cctx>>

\* del device.fragmentation_rules
DelFragmentationRules(o) ==
    /\ RegistryOnly
    /\ obj_state[o] = "live"
    /\ fctx' = [fctx EXCEPT ![o] = del_fragmentation_rules(fctx[o])]
    /\ double_free' = (double_free \/ IsDoubleFree(fctx[o]))
    /\ last' = [op |-> "del_frag_rules", ok |-> TRUE]
    /\ UNCHANGED <<obj_state, dev_id, devices, devices_null, DEVICE_COUNT,
                   py_devices, cctx>>

NextRegistry ==
    \/ \E o \in Objs, id \in DevIds : DeviceNew(o, id)
    \/ \E o \in Objs : DeviceUnregister(o)
    \/ \E o \in Objs : DeviceDealloc(o)
    \/ \E o \in Objs, rules \in RuleLists : SetCompressionRules(o, rules)
    \/ \E o \in Objs : DelCompressionRules(o)
    \/ \E o \in FragObjs, n \in FragRuleCounts : SetFragmentationRules(o, n)
    \/ \E o \in FragObjs : SetFragmentationRulesRaising(o)
    \/ \E o \in FragObjs : DelFragmentationRules(o)


(***************************************************************************)
(* Claims about the device registry.                                       *)
(***************************************************************************)

\* C6: in every reachable state of the registry, no two devices registered
\* in the engine's device array share a device_id.
C6_UniqueDeviceIds ==
    \A i, j \in 1..DEVICE_COUNT :
        i # j => dev_id[devices[i]] # dev_id[devices[j]]

\* C6 witness: two devices are registered, after a creation with a
\* registered ID was refused.
C6_Witness ==
    /\ DEVICE_COUNT = 2
    /\ devices[1] # devices[2]
    /\ last.op = "new" /\ last.ok

\* C7: a Device creation that fails because the ID is registered leaves the
\* registry unchanged: the holder of the ID is still in the device array, is
\* still what Device.get returns, and keeps its rules.
C7_FailedCreationKeepsRegistry ==
    (last.op = "new" /\ ~last.ok) =>
        /\ last.holder \in Registered
        /\ DEVICE_COUNT = last.count
        /\ Device_get(last.id) = last.holder
        /\ cctx[last.holder] = last.holder_ctx

\* C8: a compression_rules assignment that fails on a malformed rule applies
\* nothing: the device's compression context is what it was before the
\* assignment, and it is still allocated.
C8_FailedAssignmentKeepsRules ==
    (last.op = "set_rules" /\ ~last.ok) =>
        /\ cctx[last.obj] = last.before
        /\ ~(cctx[last.obj].set /\ cctx[last.obj].freed)

\* After unregister() the device is out of the registry: it is not in the
\* engine's device array, Device.get raises KeyError for its ID, and a
\* Device with the ID can be created.
OutOfRegistry ==
    /\ last.obj \notin Registered
    /\ Device_get(last.id) = 0
    /\ ~register_raises(Registry, last.id)

\* C25: after unregister() the device is out of the registry and holds
\* neither compression rules nor fragmentation rules: both contexts are NULL
\* and both rule counts are 0.
C25_UnregisterFreesRules ==
    last.op = "unregister" =>
        /\ OutOfRegistry
        /\ ~cctx[last.obj].set /\ cctx[last.obj].count = 0
        /\ ~fctx[last.obj].set /\ fctx[last.obj].count = 0

\* C25, the registry and the compression rules alone, for a device
\* unregistered while some device is registered (the device array is not
\* NULL).
C25_CompressionSideHolds ==
    (last.op = "unregister" /\ ~last.was_null) =>
        /\ OutOfRegistry
        /\ ~cctx[last.obj].set /\ cctx[last.obj].count = 0

C25_CompressionSideWitness ==
    /\ last.op = "unregister" /\ ~last.was_null
    /\ last.had_cctx /\ last.had_fctx
    /\ fctx[last.obj].set /\ fctx[last.obj].count > 0

\* Object o is not registered while the registered device h holds its ID.
Stale(o, h) ==
    /\ obj_state[o] = "live"
    /\ o \notin Registered
    /\ h \in Registered
    /\ dev_id[h] = dev_id[o]

\* C36: unregister() or deallocation of an object that is not registered,
\* while a registered device holds its device_id, leaves that device in the
\* device array and retrievable by Device.get, and DEVICE_COUNT as it was.
C36_StaleUnregisterKeepsHolder ==
    [][\A o, h \in Objs :
          (Stale(o, h) /\ (DeviceUnregister(o) \/ DeviceDealloc(o)))
          => /\ \E i \in 1..DEVICE_COUNT' : devices'[i] = h
             /\ py_devices'[dev_id[h]] = h
             /\ DEVICE_COUNT' = DEVICE_COUNT]_vars

\* C36, for an unregistered object whose device_id no registered device
\* holds: unregister() leaves the device array, DEVICE_COUNT and Device.get
\* as they were.
C36_UnheldIdHolds ==
    [][\A o \in Objs :
          (/\ obj_state[o] = "live" /\ o \notin Registered
           /\ \A h \in Registered : dev_id[h] # dev_id[o]
           /\ DeviceUnregister(o))
          => UNCHANGED <<devices, DEVICE_COUNT, py_devices>>]_vars

\* An object was unregistered a second time while another device was
\* registered under another ID.
C36_UnheldIdWitness ==
    /\ last.op = "unregister" /\ ~last.was_null
    /\ last.obj \notin Registered
    /\ DEVICE_COUNT > 0
    /\ \A h \in Registered : dev_id[h] # last.id
    /\ ~last.had_cctx /\ cctx[last.obj] = NullCtx

\* The Python-side registry Device._devices and the engine's device array
\* hold the same devices under the same IDs, and the array is NULL exactly
\* when it is empty.
RegistryAgrees ==
    /\ DEVICE_COUNT = Cardinality({ id \in DevIds : Device_get(id) # 0 })
    /\ DEVICE_COUNT = Cardinality(Registered)
    /\ \A id \in DevIds :
           Device_get(id) # 0 <=>
               \E i \in 1..DEVICE_COUNT : dev_id[devices[i]] = id
    /\ \A id \in DevIds :
           Device_get(id) # 0 =>
               /\ Device_get(id) \in Registered
               /\ dev_id[Device_get(id)] = id
    /\ devices_null <=> (DEVICE_COUNT = 0)

\* The device array stays in registration order: a step leaves it alone,
\* appends the device it registers, or takes one device out and keeps the
\* others in their order.
RegistrationOrderKept ==
    \/ /\ DEVICE_COUNT' = DEVICE_COUNT
       /\ \A i \in 1..DEVICE_COUNT : devices'[i] = devices[i]
    \/ /\ DEVICE_COUNT' = DEVICE_COUNT + 1
       /\ \A i \in 1..DEVICE_COUNT : devices'[i] = devices[i]
       /\ devices'[DEVICE_COUNT'] \notin Registered
    \/ /\ DEVICE_COUNT' = DEVICE_COUNT - 1
       /\ \E k \in 1..DEVICE_COUNT :
              \A i \in 1..DEVICE_COUNT' :
                  devices'[i] = IF i < k THEN devices[i] ELSE devices[i + 1]

\* C37: after any sequence of creations and unregistrations the two
\* registries agree and the device array is in registration order.
C37_RegistriesAgree ==
    []RegistryAgrees /\ [][RegistrationOrderKept]_vars

\* C37 witness: the device registered first was unregistered while two were
\* registered, and the other one is the first entry of the array now.
C37_Witness ==
    /\ last.op = "unregister" /\ ~last.was_null
    /\ DEVICE_COUNT = 1
    /\ last.obj < devices[1]
    /\ last.obj \notin Registered
    /\ Device_get(dev_id[devices[1]]) = devices[1]
    /\ Device_get(last.id) = 0

\* C35: in every reachable state no rule context has been freed twice, and
\* a device with a non-zero rule count has a live context of that kind: the
\* pointer is set and the context was not freed.
C35_ContextsLive ==
    /\ ~double_free
    /\ \A o \in Objs :
           /\ cctx[o].count > 0 => (cctx[o].set /\ ~cctx[o].freed)
           /\ fctx[o].count > 0 => (fctx[o].set /\ ~fctx[o].freed)

\* C35, as long as no assignment has raised: assignments of valid and empty
\* lists, deletions, unregister() and deallocation free no context twice and
\* leave no reference to a freed context.
C35_HoldsUntilAssignmentRaises ==
    [][(/\ ~double_free
        /\ \A o \in Objs : ~cctx[o].freed /\ ~fctx[o].freed
        /\ ~(last'.op \in {"set_rules", "set_frag_rules"} /\ ~last'.ok))
       => (/\ ~double_free'
           /\ \A o \in Objs : ~cctx'[o].freed /\ ~fctx'[o].freed)]_vars

\* A device that had rules of both kinds replaced by other lists and then
\* deleted was unregistered.
C35_ReplacedWitness ==
    /\ last.op = "unregister" /\ ~last.was_null
    /\ ~double_free
    /\ \A o \in Objs : ~cctx[o].freed /\ ~fctx[o].freed
    /\ last.had_cctx /\ last.had_fctx

(***************************************************************************)
(* Part 2.  Fragmentation connections and their timer tasks.               *)
(***************************************************************************)
MaxWrappers == 2
MaxPool == 1

Wrappers == 1..MaxWrappers
\* Inner connections: the one wrapper w allocates itself is called w; the
\* connections of the engine's pool follow.
PoolConns == (MaxWrappers + 1)..(MaxWrappers + MaxPool)
InnerConns == Wrappers \cup PoolConns

\* The engine's timer callbacks (schc_fragment, schc_reassemble, ...), as
\* non-NULL function pointers.
TimerTaskPtrs == {1}

\* The transfers (device and datagram tag) inbound fragments belong to; one
\* more than the pool holds connections.
Transfers == 1..(MaxPool + 1)

\* What conn.fragmentation_rule is once the engine has looked the rule of a
\* fragment up: "NULL", or the mode of the rule.
RuleModes == {"NULL", "NOT_FRAGMENTED", "NO_ACK"}

\* A wrapper object: live from its creation to its deallocation, gone after
\* it.  at is its address (addresses are named after the first object that
\* had them: an object is at an address of its own or at the address of an
\* object that is gone).  remove tells whether its ops have a
\* remove_timer_entry callback (FragmenterOps: "May be None").  The memory
\* of an object that is gone keeps its _frag_conn until another object is
\* created there.  stale tells that the object was deallocated and that
\* input() has handed it out again since: the application calls an object
\* whose memory is free and whose ops are NULL.
NoWrapper == [live |-> FALSE, malloced |-> FALSE, frag_conn |-> 0,
              fragmented |-> FALSE, remove |-> FALSE, gone |-> FALSE,
              at |-> 0, stale |-> FALSE]

\* An inner connection nobody uses.  timer_ctx is the address of a wrapper,
\* or 0 (NULL).  buf is what the engine holds in the connection's reassembly
\* buffer: nothing ("empty"), the fragments it was handed ("partial"), or a
\* reassembled packet ("complete").
FreeConn ==
    [used |-> FALSE, timer_ctx |-> 0, xfer |-> 0, rule |-> "NULL",
     buf |-> "empty"]

InitTimer ==
    /\ wr = [w \in Wrappers |-> NoWrapper]
    /\ inner = [c \in InnerConns |-> FreeConn]
    /\ timers = {}
    /\ tlast = [op |-> "init"]

\* The process runs: no call has ended it.
TimerOnly ==
    /\ tlast.op # "crashed"
    /\ UNCHANGED <<regVars, compVars, fragVars, bitVars, deployVars>>

\* FragmentationConnection._allocated
allocated(w) == wr[w].frag_conn # 0

\* FragmentationConnection._is_conn / is_conn
is_conn(w, conn) == wr[w].frag_conn = conn

\* The wrapper objects that live at address a (one at most).
Holder(a) == { w \in Wrappers : wr[w].live /\ wr[w].at = a }

\* The addresses a new wrapper object can get: its own, or one that a
\* deallocated object has left.
FreeAddrs(w) ==
    {w} \cup { a \in { wr[p].at : p \in { q \in Wrappers : wr[q].gone } } :
                 Holder(a) = {} }

\* The first wrapper object not yet created.
NextWrapper ==
    { w \in Wrappers : /\ ~wr[w].live /\ ~wr[w].gone
                       /\ \A p \in 1..(w - 1) : wr[p].live \/ wr[p].gone }

\* FragmentationConnection._outer_from_struct: the wrapper timer_ctx points
\* to if it still has an inner connection, else 0 (None).
outer_from_struct(conn) ==
    IF inner[conn].timer_ctx # 0 /\ Holder(inner[conn].timer_ctx) # {}
    THEN LET obj == CHOOSE w \in Holder(inner[conn].timer_ctx) : TRUE
         IN IF ~allocated(obj) THEN 0 ELSE obj
    ELSE 0

\* The object deallocated last at address a, 0 if there is none: the
\* objects are numbered as they are created.
Dead(a) ==
    LET D == { w \in Wrappers : wr[w].gone /\ wr[w].at = a }
    IN IF D = {} THEN 0 ELSE CHOOSE w \in D : \A v \in D : v <= w

\* What _outer_from_struct can come to.  timer_ctx is stored without a
\* reference to the wrapper; when the wrapper has been deallocated the cast
\* and the call of _allocated() read freed memory.  If a wrapper has been
\* created at that address since, the read finds that wrapper; if not, the
\* process dies (-1), the read finds no inner connection (None), or it
\* finds the memory as __dealloc__ left it, with the _frag_conn of the
\* deallocated object, and that object is returned.
outer_from_struct_outcomes(conn) ==
    IF inner[conn].timer_ctx # 0 /\ Holder(inner[conn].timer_ctx) = {}
    THEN {-1, 0} \cup { w \in {Dead(inner[conn].timer_ctx)} :
                            w # 0 /\ wr[w].frag_conn # 0 }
    ELSE {outer_from_struct(conn)}

\* obj.ops of the object _outer_from_struct returns is NULL: the object was
\* deallocated (tp_dealloc clears its ops).  Reading it ends the process.
null_ops(obj) == obj # 0 /\ (wr[obj].gone \/ wr[obj].stale)

\* remove_timer_entry(conn) of the scheduler (README): the handle of the
\* connection is cancelled and its entry deleted, whether its delay has
\* passed or not; a cancelled handle never runs.
remove_timer_entry(T, w) == { t \in T : t.conn # w }

\* FragmentationConnection._c_remove_timer_entry: the callback of the
\* wrapper's ops is called if there is one.
c_remove_timer_entry(T, conn) ==
    IF outer_from_struct(conn) # 0 /\ wr[outer_from_struct(conn)].remove
    THEN remove_timer_entry(T, outer_from_struct(conn))
    ELSE T

\* post_timer_task(conn, task.the_task, delay, task) of the scheduler
\* (README): the entry of the connection is removed and the new handle takes
\* its place.
post_timer_task(T, w, task) == remove_timer_entry(T, w) \cup {task}

\* FragmentationConnection(ops): the wrapper allocates and zeroes its own
\* inner connection and installs its callbacks (_init_ops).  The ops have a
\* remove_timer_entry callback or none; the connections of a process are
\* given the callbacks of one scheduler.  The object is created at address a.
ConnNew(w, remove, a) ==
    /\ TimerOnly
    /\ w \in NextWrapper
    /\ a \in FreeAddrs(w)
    /\ \A p \in Wrappers :
           (wr[p].live /\ ~wr[p].stale) => wr[p].remove = remove
    /\ wr' = [wr EXCEPT ![w] = [live |-> TRUE, malloced |-> TRUE,
                                frag_conn |-> w, fragmented |-> FALSE,
                                remove |-> remove, gone |-> FALSE,
                                at |-> a, stale |-> FALSE]]
    /\ inner' = [inner EXCEPT ![w] = [FreeConn EXCEPT !.timer_ctx = a]]
    /\ tlast' = [op |-> "new"]
    /\ UNCHANGED timers

\* FragmentationConnection.__dealloc__: the last reference to wrapper w is
\* gone.  A task of the wrapper refers to it (_TimerTask._conn, and the key
\* of the scheduler's entry), so a wrapper with an entry is not deallocated.
\* A wrapper that owns its inner connection frees it and clears its
\* _frag_conn; any other leaves the connection as it is, timer_ctx
\* included, and keeps its _frag_conn.
ConnDealloc(w) ==
    /\ TimerOnly
    /\ wr[w].live
    /\ \A t \in timers : t.conn # w
    /\ wr' = [wr EXCEPT ![w] =
                  [NoWrapper EXCEPT !.gone = TRUE,
                                    !.at = wr[w].at,
                                    !.frag_conn = IF wr[w].malloced THEN 0
                                                  ELSE wr[w].frag_conn]]
    /\ inner' = [c \in InnerConns |->
                    IF wr[w].malloced /\ wr[w].frag_conn = c THEN FreeConn
                    ELSE inner[c]]
    /\ tlast' = [op |-> "dealloc", w |-> w, own |-> wr[w].malloced,
                 conn |-> wr[w].frag_conn]
    /\ UNCHANGED timers

\* ops.remove_timer_entry = callback or None: the callbacks are plain
\* attributes of the FragmenterOps object the connections share.
OpsSetRemove(remove) ==
    /\ TimerOnly
    /\ \E w \in Wrappers :
           wr[w].live /\ ~wr[w].stale /\ wr[w].remove # remove
    /\ wr' = [w \in Wrappers |->
                 IF wr[w].live /\ ~wr[w].stale
                 THEN [wr[w] EXCEPT !.remove = remove]
                 ELSE wr[w]]
    /\ tlast' = [op |-> "ops_set"]
    /\ UNCHANGED <<inner, timers>>

\* init_tx / init_rx on a wrapper that owns its inner connection: the
\* connection is bound to a device and is in use from now on.  Both assert
\* that the ops have a remove_timer_entry callback.
ConnInit(w) ==
    /\ TimerOnly
    /\ wr[w].live /\ wr[w].malloced /\ wr[w].frag_conn # 0
    /\ ~inner[wr[w].frag_conn].used
    /\ IF ~wr[w].remove
       THEN /\ tlast' = [op |-> "init_conn", result |-> "AssertionError"]
            /\ UNCHANGED inner
       ELSE /\ inner' = [inner EXCEPT
                            ![wr[w].frag_conn].used = TRUE,
                            ![wr[w].frag_conn].timer_ctx = wr[w].at]
            /\ tlast' = [op |-> "init_conn", result |-> "ok"]
    /\ UNCHANGED <<wr, timers>>

schc_get_connection_steals(x) == CHOOSE p \in PoolConns : TRUE

\* schc_get_connection of the engine: the pool connection of the transfer
\* if there is one, else a free pool connection, else 0 (NULL).
schc_get_connection(x) ==
    IF \E p \in PoolConns : inner[p].used /\ inner[p].xfer = x
    THEN CHOOSE p \in PoolConns : inner[p].used /\ inner[p].xfer = x
    ELSE IF \E p \in PoolConns : ~inner[p].used
         THEN CHOOSE p \in PoolConns :
                  /\ ~inner[p].used
                  /\ \A q \in PoolConns : ~inner[q].used => p <= q
         ELSE 0

\* schc_input(buf, length, tx_conn, device_id) of the engine: an ACK is
\* taken by the connection it was given to, a fragment by the connection
\* schc_get_connection finds.
schc_input(kind, tx_conn, x) ==
    IF kind = "ack" THEN tx_conn ELSE schc_get_connection(x)

\* What the connection that takes a fragment holds afterwards.
mbuf_push(buf) == IF buf = "empty" THEN "partial" ELSE buf

\* res._fragmented in _input, from conn_ptr.fragmentation_rule
fragmented_flag(rule) == rule \notin {"NULL", "NOT_FRAGMENTED"}

device_id_unchecked(ic) == FALSE

\* "not self._frag_conn.device_id" in _input: the connection is not bound to
\* a device (never initialised, or cleared by the engine's reset).
no_device_id(ic) == ~ic.used

\* What a call of input() on wrapper b leaves in the history; xfer is the
\* transfer the engine took the datagram for (0 if it was not called), and
\* foreign tells that _new_conn took the wrapper from a timer_ctx whose
\* wrapper had been deallocated, stale that it took the deallocated object
\* itself.
InputCall(b, kind, x, result, res, engine) ==
    [op |-> "input", w |-> b, kind |-> kind,
     xfer |-> IF engine THEN x ELSE 0, result |-> result,
     res |-> res, engine_called |-> engine,
     own |-> wr[b].malloced, foreign |-> FALSE, stale |-> FALSE]

\* The transfers a fragment handed to input() can belong to: one that has a
\* pool connection, or a new one.  Transfers are only told apart, so a new
\* one takes the first tag no pool connection carries.
NextTransfers ==
    { x \in Transfers :
        \/ \E p \in PoolConns : inner[p].used /\ inner[p].xfer = x
        \/ \A y \in 1..(x - 1) :
               \E p \in PoolConns : inner[p].used /\ inner[p].xfer = y }

\* FragmentationConnection.input(buffer) / _input on wrapper b, with a
\* datagram of the given kind; a fragment belongs to transfer x (an ACK is
\* given x = 0).  The engine looks the rule of a fragment that opens a
\* connection up and finds any of RuleModes.
ConnInput(b, kind, x) ==
    /\ TimerOnly
    /\ wr[b].live
    /\ IF wr[b].frag_conn = 0
       THEN /\ tlast' = InputCall(b, kind, x, "AssertionError", 0, FALSE)
            /\ UNCHANGED <<wr, inner, timers>>
       ELSE IF no_device_id(inner[wr[b].frag_conn])
       THEN /\ tlast' = InputCall(b, kind, x, "None", 0, FALSE)
            /\ UNCHANGED <<wr, inner, timers>>
       ELSE \E conn_ptr \in {schc_input(kind, wr[b].frag_conn, x)} :
            IF conn_ptr = 0
            THEN /\ tlast' = InputCall(b, kind, x, "MemoryError", 0, TRUE)
                 /\ UNCHANGED <<wr, inner, timers>>
            ELSE IF conn_ptr # wr[b].frag_conn
            THEN \E rule \in (IF inner[conn_ptr].used
                              THEN {inner[conn_ptr].rule} ELSE RuleModes) :
                 \E obj \in outer_from_struct_outcomes(conn_ptr) :
                 IF obj = -1
                 THEN /\ tlast' = [op |-> "crashed"]
                      /\ UNCHANGED <<wr, inner, timers>>
                 ELSE IF obj # 0
                 THEN /\ wr' = [wr EXCEPT ![obj] =
                                    [@ EXCEPT
                                       !.fragmented = fragmented_flag(rule),
                                       !.live = TRUE,
                                       !.gone = FALSE,
                                       !.stale = @ \/ wr[obj].gone]]
                      /\ inner' = [inner EXCEPT ![conn_ptr] =
                                       [@ EXCEPT !.used = TRUE,
                                                 !.xfer = x,
                                                 !.rule = rule,
                                                 !.buf = mbuf_push(@)]]
                      /\ tlast' = [InputCall(b, kind, x, "conn", obj, TRUE)
                                      EXCEPT !.foreign =
                                                 wr[obj].frag_conn # conn_ptr,
                                             !.stale = wr[obj].gone]
                      /\ UNCHANGED timers
                 ELSE IF wr[b].stale
                 THEN \* FragmentationConnection(ops=self.ops) with NULL ops
                      /\ tlast' = [op |-> "crashed"]
                      /\ UNCHANGED <<wr, inner, timers>>
                 ELSE \E res \in NextWrapper : \E a \in FreeAddrs(res) :
                      /\ wr' = [wr EXCEPT ![res] =
                                    [live |-> TRUE, malloced |-> FALSE,
                                     frag_conn |-> conn_ptr,
                                     fragmented |-> fragmented_flag(rule),
                                     remove |-> wr[b].remove,
                                     gone |-> FALSE, at |-> a,
                                     stale |-> FALSE]]
                      /\ inner' = [inner EXCEPT ![conn_ptr] =
                                       [@ EXCEPT !.used = TRUE,
                                                 !.xfer = x,
                                                 !.rule = rule,
                                                 !.buf = mbuf_push(@),
                                                 !.timer_ctx = a]]
                      /\ tlast' = InputCall(b, kind, x, "conn", res, TRUE)
                      /\ UNCHANGED timers
            ELSE /\ wr' = [wr EXCEPT ![b].fragmented = FALSE]
                 /\ tlast' = InputCall(b, kind, x, "conn", b, TRUE)
                 /\ UNCHANGED <<inner, timers>>

\* The engine arms a timer on connection c: conn->post_timer_task(conn,
\* timer_task, delay, conn), i.e. _c_post_timer_task.
EnginePostTimer(c, ptr) ==
    /\ TimerOnly
    /\ inner[c].used
    /\ \E obj \in outer_from_struct_outcomes(c) :
           IF obj = -1 \/ null_ops(obj)
           THEN /\ tlast' = [op |-> "crashed"]
                /\ UNCHANGED timers
           ELSE /\ IF obj # 0
                   THEN timers' = post_timer_task(timers, obj,
                                     [conn |-> obj,
                                      timer_task_ptr |-> ptr, arg |-> c,
                                      after_reset |-> FALSE,
                                      stage |-> "armed"])
                   ELSE UNCHANGED timers
                /\ tlast' = [op |-> "post"]
    /\ UNCHANGED <<wr, inner>>

\* The delay of an armed task has passed: the scheduler takes the task up;
\* it runs once the caller's serialisation lets it.
TimerExpire(t) ==
    /\ TimerOnly
    /\ t \in timers /\ t.stage = "armed"
    /\ ~(\E u \in timers : u.conn = t.conn /\ u.stage = "expired")
    /\ timers' = (timers \ {t}) \cup {[t EXCEPT !.stage = "expired"]}
    /\ tlast' = [op |-> "expire"]
    /\ UNCHANGED <<wr, inner>>

\* schc_reset(conn): the armed timer is cancelled through remove_timer_entry,
\* the connection's fields are cleared, and a pool connection is free again.
schc_reset_keeps_timers(T, conn) == T

\* The tasks that are left know that their argument was reset (history).
schc_reset_timers(T, conn) ==
    { IF t.arg = conn THEN [t EXCEPT !.after_reset = TRUE] ELSE t :
        t \in c_remove_timer_entry(T, conn) }

schc_reset_conn(ic) ==
    [used |-> FALSE, timer_ctx |-> 0, xfer |-> 0, rule |-> "NULL",
     buf |-> "empty"]

\* FragmentationConnection.reset()
reset_wrapper(wrec) ==
    IF wrec.malloced THEN wrec ELSE [wrec EXCEPT !.frag_conn = 0]

ConnReset(w) ==
    /\ TimerOnly
    /\ wr[w].live
    /\ wr[w].frag_conn # 0
    /\ LET c == wr[w].frag_conn
       IN IF null_ops(outer_from_struct(c))
          THEN \* _c_remove_timer_entry reads obj.ops
               /\ tlast' = [op |-> "crashed"]
               /\ UNCHANGED <<wr, inner, timers>>
          ELSE
          /\ timers' = schc_reset_timers(timers, c)
          /\ inner' = [inner EXCEPT ![c] =
                          IF wr[w].malloced
                          THEN [schc_reset_conn(inner[c])
                                    EXCEPT !.timer_ctx = wr[w].at]
                          ELSE schc_reset_conn(inner[c])]
          /\ wr' = [wr EXCEPT ![w] = reset_wrapper(wr[w])]
          /\ tlast' = [op |-> "reset", w |-> w, conn |-> c,
                       malloced |-> wr[w].malloced,
                       remove |-> wr[w].remove,
                       had_timer |-> (\E t \in timers :
                                        t.conn = w /\ t.stage = "armed"),
                       had_due |-> (\E t \in timers :
                                      t.conn = w /\ t.stage = "expired")]

\* The results of schc_reassemble: 0 (ONGOING), 1 (COMPLETED) or
\* 2 (STAY_ALIVE).
ReassembleResults == {0, 1, 2}

\* ReassemblyStatus(value): the member of the enum with that value (ONGOING,
\* COMPLETED, STAY_ALIVE, ACK_HANDLED); a value that is no member raises
\* ValueError.
ReassemblyStatus(value) ==
    CASE value = 0 -> "ONGOING"
      [] value = 1 -> "COMPLETED"
      [] value = 2 -> "STAY_ALIVE"
      [] value = 256 -> "ACK_HANDLED"
      [] OTHER -> "ValueError"

\* schc_reassemble(conn) with result res, on the inner connections: a
\* non-zero result says that the connection's buffer holds the reassembled
\* packet.
mbuf_after_reassemble(inn, c, res) ==
    [inn EXCEPT ![c].buf = IF res # 0 THEN "complete" ELSE @]

\* reset() as _reassemble calls it, on the inner connections.
reset_inner(wrec, inn) ==
    IF wrec.frag_conn = 0 THEN inn
    ELSE [inn EXCEPT ![wrec.frag_conn] =
             IF wrec.malloced
             THEN [schc_reset_conn(inn[wrec.frag_conn])
                       EXCEPT !.timer_ctx = wrec.at]
             ELSE schc_reset_conn(inn[wrec.frag_conn])]

\* What end_rx would find if reset() ran first.
end_rx_after_reset(wrec, inn) ==
    [frag_conn |-> reset_wrapper(wrec).frag_conn,
     mbuf |-> IF reset_wrapper(wrec).frag_conn = 0 THEN "empty"
              ELSE reset_inner(wrec, inn)[wrec.frag_conn].buf]

\* What ops.end_rx(self) finds when it is called with wrapper record wrec
\* while the inner connections are inn: the wrapper's _frag_conn, and what
\* the mbuf property (get_mbuf_len and mbuf_copy on _frag_conn) returns.
end_rx_sees(wrec, inn) ==
    [frag_conn |-> wrec.frag_conn,
     mbuf |-> IF wrec.frag_conn = 0 THEN "empty"
              ELSE inn[wrec.frag_conn].buf]

\* What a call of reassemble() on wrapper w leaves in the history: the value
\* it returned, the result of the engine (0 if it was not called), whether
\* an assertion failed, whether the ops had an end_rx callback, whether it
\* was called and what it found.
ReassembleCall(w, res, engine, has_end_rx, called, view) ==
    [op |-> "reassemble", w |-> w, conn |-> wr[w].frag_conn,
     result |-> ReassemblyStatus(res), res |-> res,
     engine_called |-> engine, asserted |-> ~engine,
     has_end_rx |-> has_end_rx, end_rx |-> called, view |-> view,
     own |-> wr[w].malloced,
     rule |-> IF wr[w].frag_conn = 0 THEN "NULL"
              ELSE inner[wr[w].frag_conn].rule]

NoView == [frag_conn |-> 0, mbuf |-> "empty"]

\* FragmentationConnection.reassemble() / _reassemble on wrapper w; res is
\* the result of schc_reassemble and has_end_rx tells whether ops.end_rx is
\* a callback (it "May be None").  _reassemble is a cdef function that
\* returns int8_t and declares no exception value: when one of its
\* assertions fails (no inner connection, no fragmentation rule) the
\* AssertionError is written to stderr and dropped, the engine is not
\* called, and reassemble() returns ReassemblyStatus(0).  After the last
\* fragment of a NO_ACK transfer the wrapper calls end_rx, if there is one,
\* and then reset().
ConnReassemble(w, res, has_end_rx) ==
    /\ TimerOnly
    /\ wr[w].live
    /\ IF wr[w].frag_conn = 0 \/ inner[wr[w].frag_conn].rule = "NULL"
       THEN /\ tlast' = ReassembleCall(w, 0, FALSE, has_end_rx, FALSE,
                                       NoView)
            /\ UNCHANGED <<wr, inner, timers>>
       ELSE LET c == wr[w].frag_conn
                done == mbuf_after_reassemble(inner, c, res)
            IN
            IF res # 0 /\ inner[c].rule = "NO_ACK" /\ wr[w].stale
            THEN \* self.ops is read for end_rx
                 /\ tlast' = [op |-> "crashed"]
                 /\ UNCHANGED <<wr, inner, timers>>
            ELSE IF res # 0 /\ inner[c].rule = "NO_ACK"
            THEN /\ tlast' = ReassembleCall(w, res, TRUE, has_end_rx,
                                 has_end_rx,
                                 IF has_end_rx
                                 THEN end_rx_sees(wr[w], done)
                                 ELSE NoView)
                 /\ timers' = schc_reset_timers(timers, c)
                 /\ inner' = reset_inner(wr[w], done)
                 /\ wr' = [wr EXCEPT ![w] = reset_wrapper(wr[w])]
            ELSE /\ tlast' = ReassembleCall(w, res, TRUE, has_end_rx,
                                            FALSE, NoView)
                 /\ inner' = done
                 /\ UNCHANGED <<wr, timers>>

\* The mbuf property / _get_mbuf on wrapper w: get_mbuf_len and mbuf_copy are
\* called with the wrapper's _frag_conn whatever it is; a wrapper without an
\* inner connection hands them NULL.
ConnMbuf(w) ==
    /\ TimerOnly
    /\ wr[w].live
    /\ tlast' = [op |-> "mbuf", w |-> w, conn |-> wr[w].frag_conn,
                 engine_called |-> TRUE, own |-> wr[w].malloced]
    /\ UNCHANGED <<wr, inner, timers>>

\* A call on a stale object reads and writes memory that is free: whatever
\* the call, the process may die in it.
ConnStaleUse(w) ==
    /\ TimerOnly
    /\ wr[w].live /\ wr[w].stale
    /\ tlast' = [op |-> "crashed"]
    /\ UNCHANGED <<wr, inner, timers>>

\* _TimerTask.the_task(obj): the engine callback is called iff the wrapper's
\* inner connection is the task's argument and the callback is not NULL.
the_task_calls(t) == is_conn(t.conn, t.arg) /\ t.timer_task_ptr # 0

\* A task runs.  The history records whether the engine callback was called
\* and whether the connection was reset after the task was posted.  The
\* scheduler keeps the entry of the handle that has run until the next
\* remove_timer_entry or post_timer_task of the connection.
TimerFire(t) ==
    /\ TimerOnly
    /\ t \in timers /\ t.stage = "expired"
    /\ timers' = (timers \ {t}) \cup {[t EXCEPT !.stage = "done"]}
    /\ tlast' = [op |-> "fire", called |-> the_task_calls(t),
                 after_reset |-> t.after_reset,
                 malloced |-> wr[t.conn].malloced]
    /\ UNCHANGED <<wr, inner>>

NextTimer ==
    \/ \E w \in Wrappers, remove \in BOOLEAN, a \in Wrappers :
           ConnNew(w, remove, a)
    \/ \E w \in Wrappers : ConnDealloc(w)
    \/ \E w \in Wrappers : ConnStaleUse(w)
    \/ \E remove \in BOOLEAN : OpsSetRemove(remove)
    \/ \E w \in Wrappers : ConnInit(w)
    \/ \E b \in Wrappers, x \in NextTransfers : ConnInput(b, "fragment", x)
    \/ \E b \in Wrappers : ConnInput(b, "ack", 0)
    \/ \E c \in InnerConns, ptr \in TimerTaskPtrs : EnginePostTimer(c, ptr)
    \/ \E t \in timers : TimerExpire(t)
    \/ \E w \in Wrappers : ConnReset(w)
    \/ \E t \in timers : TimerFire(t)

\* The calls of a receiver: connections are made and initialised, datagrams
\* are handed to input(), reassemble() and the mbuf property are used on the
\* connections, connections are reset, and the engine arms timers.
NextReassemble ==
    \/ \E w \in Wrappers, remove \in BOOLEAN, a \in Wrappers :
           ConnNew(w, remove, a)
    \/ \E w \in Wrappers : ConnDealloc(w)
    \/ \E w \in Wrappers : ConnStaleUse(w)
    \/ \E remove \in BOOLEAN : OpsSetRemove(remove)
    \/ \E w \in Wrappers : ConnInit(w)
    \/ \E b \in Wrappers, x \in NextTransfers : ConnInput(b, "fragment", x)
    \/ \E b \in Wrappers : ConnInput(b, "ack", 0)
    \/ \E c \in InnerConns, ptr \in TimerTaskPtrs : EnginePostTimer(c, ptr)
    \/ \E w \in Wrappers : ConnReset(w)
    \/ \E w \in Wrappers, res \in ReassembleResults, has_end_rx \in BOOLEAN :
           ConnReassemble(w, res, has_end_rx)
    \/ \E w \in Wrappers : ConnMbuf(w)

\* C5: a timer task that runs after its connection was reset does not call
\* the engine callback, for wrapper-allocated and for pool connections.
C5_NoCallbackAfterReset ==
    (tlast.op = "fire" /\ tlast.after_reset) => ~tlast.called

\* C5, the receiving side alone: a task posted for a pool connection that was
\* reset since does not call the engine callback.
C5_PoolSideHolds ==
    (tlast.op = "fire" /\ tlast.after_reset /\ ~tlast.malloced)
        => ~tlast.called

C5_PoolSideWitness ==
    tlast.op = "fire" /\ tlast.after_reset /\ ~tlast.malloced

\* C22: a call of input() on a connection whose device_id is cleared returns
\* None without calling the engine (which alone sends, arms and removes
\* timers and fires the end callbacks), and leaves every wrapper, every
\* inner connection and every timer task as it was.
C22_ClearedInputIsNoOp ==
    [][\A b \in Wrappers :
          (/\ tlast'.op = "input" /\ tlast'.w = b
           /\ wr[b].frag_conn # 0
           /\ ~inner[wr[b].frag_conn].used)
          => /\ tlast'.result = "None"
             /\ ~tlast'.engine_called
             /\ UNCHANGED <<wr, inner, timers>>]_vars

\* C22 witness: an ACK was passed to a sender's connection that was bound
\* to a device and has been reset since, while a timer task of the
\* connection was still held by the scheduler; input() returned None.
C22_Witness ==
    /\ tlast.op = "input" /\ tlast.kind = "ack" /\ tlast.own
    /\ tlast.result = "None"
    /\ \E t \in timers :
           t.conn = tlast.w /\ t.arg = wr[tlast.w].frag_conn /\ t.after_reset

\* C23: a call of input() with a fragment of a transfer that has no pool
\* connection, while no pool connection is free, raises MemoryError (it does
\* not return None), and leaves every wrapper, every inner connection and
\* every timer task as it was.
C23_PoolExhaustedIsReported ==
    [][\A b \in Wrappers :
          (/\ tlast'.op = "input" /\ tlast'.w = b
           /\ tlast'.kind = "fragment"
           /\ wr[b].frag_conn # 0
           /\ inner[wr[b].frag_conn].used
           /\ \A p \in PoolConns :
                  inner[p].used /\ inner[p].xfer # tlast'.xfer)
          => /\ tlast'.result = "MemoryError"
             /\ UNCHANGED <<wr, inner, timers>>]_vars

\* C23 witness: input() raised MemoryError on a wrapper that owns its
\* connection, while another wrapper holds the pool connection of a transfer
\* in progress.
C23_Witness ==
    /\ tlast.op = "input" /\ tlast.result = "MemoryError" /\ tlast.own
    /\ inner[wr[tlast.w].frag_conn].used
    /\ \E w \in Wrappers :
           /\ w # tlast.w /\ wr[w].live /\ wr[w].frag_conn \in PoolConns
           /\ inner[wr[w].frag_conn].used
           /\ inner[wr[w].frag_conn].xfer # tlast.xfer

\* What C26 says of a call of input() that returned a connection: it is the
\* wrapper input() was called on exactly when the datagram was an ACK, and
\* its fragmented flag is set exactly when the datagram was a fragment and
\* the connection has a fragmentation rule of a mode other than
\* NOT_FRAGMENTED.
ReturnedAsDocumented ==
    /\ (tlast.res = tlast.w) <=> (tlast.kind = "ack")
    /\ wr[tlast.res].fragmented <=>
           /\ tlast.kind = "fragment"
           /\ inner[wr[tlast.res].frag_conn].rule
                  \notin {"NULL", "NOT_FRAGMENTED"}

\* C26: every call of input() that returns a connection returns it as
\* documented, whatever connection it was called on.
C26_InputReturnsByDatagramKind ==
    (tlast.op = "input" /\ tlast.result = "conn") => ReturnedAsDocumented

\* C26, for the calls made on a wrapper that owns its inner connection (the
\* connection of a sender or the base connection of a receiver), as long as
\* the call did not return a wrapper of another inner connection.
C26_OwnedSideHolds ==
    (tlast.op = "input" /\ tlast.result = "conn" /\ tlast.own
        /\ ~tlast.foreign)
        => ReturnedAsDocumented

\* input() returned the object that had been deallocated: _outer_from_struct
\* read its memory through the timer_ctx it had left behind.
C26_StaleWrapper ==
    tlast.op = "input" /\ tlast.result = "conn" /\ tlast.stale

\* input() on a wrapper that owns its inner connection returned a wrapper
\* of another inner connection than the one the engine took the fragment
\* for.
C26_ForeignWrapper ==
    tlast.op = "input" /\ tlast.result = "conn" /\ tlast.foreign

\* A fragment whose rule has a fragmenting mode came back in another wrapper
\* with the flag set.
C26_FragmentWitness ==
    /\ tlast.op = "input" /\ tlast.result = "conn" /\ tlast.own
    /\ tlast.kind = "fragment" /\ tlast.res # tlast.w
    /\ wr[tlast.res].fragmented

\* An ACK came back in the wrapper it was given to, with the flag cleared.
C26_AckWitness ==
    /\ tlast.op = "input" /\ tlast.result = "conn" /\ tlast.own
    /\ tlast.kind = "ack" /\ tlast.res = tlast.w
    /\ ~wr[tlast.res].fragmented

\* A fragment of a NOT_FRAGMENTED rule came back in another wrapper with the
\* flag cleared.
C26_NotFragmentedWitness ==
    /\ tlast.op = "input" /\ tlast.result = "conn" /\ tlast.own
    /\ tlast.kind = "fragment" /\ tlast.res # tlast.w
    /\ inner[wr[tlast.res].frag_conn].rule = "NOT_FRAGMENTED"
    /\ ~wr[tlast.res].fragmented

\* A wrapper that input() returned and that has been reset since: it lives,
\* does not own an inner connection and has none.
Discarded(w) == wr[w].live /\ ~wr[w].malloced /\ wr[w].frag_conn = 0

\* After reassemble() completed a NO_ACK transfer: end_rx was called if the
\* ops have that callback; it found the wrapper with its inner connection
\* and the complete buffer; and the connection has been reset since (the
\* inner connection is free again and its buffer empty; a wrapper that
\* input() returned has no inner connection any more).
EndRxBeforeReset ==
    (tlast.op = "reassemble" /\ tlast.res # 0 /\ tlast.rule = "NO_ACK") =>
        /\ tlast.end_rx <=> tlast.has_end_rx
        /\ tlast.end_rx =>
               /\ tlast.view.frag_conn = tlast.conn /\ tlast.conn # 0
               /\ tlast.view.mbuf = "complete"
        /\ ~inner[tlast.conn].used
        /\ inner[tlast.conn].buf = "empty"
        /\ ~tlast.own => Discarded(tlast.w)

\* A discarded wrapper stays discarded until it is deallocated, no call of
\* input() or reassemble() on it reaches the engine, a read of its mbuf hands the engine NULL and no
\* inner connection, and no timer task is left that would call the engine
\* for it.
DiscardedStaysOut ==
    \A w \in Wrappers :
        Discarded(w) =>
            /\ Discarded(w)' \/ wr'[w].gone
            /\ (tlast'.op \in {"input", "reassemble"} /\ tlast'.w = w)
                   => ~tlast'.engine_called
            /\ (tlast'.op = "mbuf" /\ tlast'.w = w) => tlast'.conn = 0
            /\ \A t \in timers : t.conn = w => ~the_task_calls(t)

\* C38: when reassemble() completes a NO_ACK transfer, the end_rx callback of
\* the ops runs while the connection still has its inner connection and the
\* complete buffer, the connection is reset afterwards, and a connection
\* obtained from input() is not passed to the engine again after that reset.
C38_EndRxThenReset ==
    []EndRxBeforeReset /\ [][DiscardedStaysOut]_vars

\* C38 witness: reassemble() completed a NO_ACK transfer on a wrapper that
\* input() had returned.
C38_Witness ==
    /\ tlast.op = "reassemble" /\ tlast.res # 0 /\ tlast.rule = "NO_ACK"
    /\ ~tlast.own /\ tlast.end_rx
    /\ tlast.view.mbuf = "complete"
    /\ Discarded(tlast.w)

\* C38 witness: input() was called on a discarded wrapper and raised.
C38_DiscardedWitness ==
    /\ tlast.op = "input" /\ tlast.result = "AssertionError"
    /\ Discarded(tlast.w)

\* C38 witness: reassemble() was called on a discarded wrapper; its
\* assertion failed, the engine was not called and ONGOING came back.
C38_ReassembleDiscardedWitness ==
    /\ tlast.op = "reassemble" /\ tlast.asserted
    /\ tlast.result = "ONGOING" /\ ~tlast.engine_called
    /\ Discarded(tlast.w)

\* C38 witness: the ops had no end_rx callback when reassemble() completed
\* a NO_ACK transfer; the connection was reset all the same.
C38_NoCallbackWitness ==
    /\ tlast.op = "reassemble" /\ tlast.res # 0 /\ tlast.rule = "NO_ACK"
    /\ ~tlast.has_end_rx /\ ~tlast.end_rx
    /\ ~inner[tlast.conn].used

\* After reset() no timer task of the wrapper is armed or waiting to run,
\* and no such task of another wrapper would call the engine for its inner
\* connection.
NoTimerLeft ==
    ~(\E t \in timers :
          /\ t.stage \in {"armed", "expired"}
          /\ \/ t.conn = tlast.w
             \/ t.arg = tlast.conn /\ the_task_calls(t))

\* After reset() of a wrapper around a pool connection, the wrapper has no
\* inner connection and the pool connection is free again.
PoolConnFreed ==
    /\ wr[tlast.w].frag_conn = 0
    /\ ~inner[tlast.conn].used
    /\ outer_from_struct(tlast.conn) = 0

\* C21: after reset() of a connection no timer task of it is armed or
\* waiting to run, and after reset() of a wrapper around a pool connection
\* the wrapper has no inner connection and the pool connection is free
\* again.
C21_ResetCancelsTimerAndFrees ==
    tlast.op = "reset" =>
        /\ NoTimerLeft
        /\ ~tlast.malloced => PoolConnFreed

\* C21, for the resets made while the ops have a remove_timer_entry
\* callback, and the freeing of the pool connection for all resets.
C21_CancelsThroughCallback ==
    tlast.op = "reset" =>
        /\ tlast.remove => NoTimerLeft
        /\ ~tlast.malloced => PoolConnFreed

\* A wrapper around a pool connection with an armed timer was reset while
\* the ops had the callback.
C21_Witness ==
    tlast.op = "reset" /\ tlast.had_timer /\ ~tlast.malloced /\ tlast.remove

\* The sending side: a wrapper that owns its inner connection was reset
\* while its timer was armed, and it keeps the inner connection.
C21_MallocedWitness ==
    /\ tlast.op = "reset" /\ tlast.had_timer /\ tlast.malloced
    /\ tlast.remove
    /\ wr[tlast.w].frag_conn = tlast.conn

\* A connection with an armed timer was reset while ops.remove_timer_entry
\* was None: the task is still armed.
C21_TimerLeftArmed ==
    /\ tlast.op = "reset" /\ tlast.had_timer /\ ~tlast.remove
    /\ \E t \in timers : t.conn = tlast.w /\ t.stage = "armed"

(***************************************************************************)
(* Part 3.  Compression and decompression.                                 *)
(*                                                                         *)
(* The wrapper (CompressorDecompressor.compress / decompress and the rule  *)
(* deployment of Device) is modelled from libschc.pyx.  The engine behind  *)
(* schc_compress / schc_decompress is modelled from the specification      *)
(* (sections 4.2 and 4.3): matching operators, compression actions, rule   *)
(* selection in context order, the uncompressed fallback.                  *)
(*                                                                         *)
(* Buffers are sequences of bits, most significant bit of a byte first.    *)
(* The protocol headers are scaled down to one byte per layer so that      *)
(* every packet can be enumerated: a packet is an IPv6 header byte, a UDP  *)
(* header byte, a CoAP header byte and up to MaxPayload payload bytes.     *)
(* A field descriptor addresses the header bits that follow those of the   *)
(* descriptors before it that apply to the direction.                      *)
(***************************************************************************)
MaxPayload == 2

MAX_MTU_LENGTH == 1280

UP == "UP"
DOWN == "DOWN"
BI == "BI"

\* clibschc.BITS_TO_BYTES
BITS_TO_BYTES(x) == (x + 7) \div 8

\* The n-bit big-endian representation of v (its low n bits).
IntToBits(v, n) == [i \in 1..n |-> (v \div (2 ^ (n - i))) % 2]

RECURSIVE BitsToInt(_)
BitsToInt(b) ==
    IF Len(b) = 0 THEN 0
    ELSE 2 * BitsToInt(SubSeq(b, 1, Len(b) - 1)) + b[Len(b)]

\* The bits of a byte string.
BytesToBits(bs) ==
    [i \in 1..(8 * Len(bs)) |->
        (bs[((i - 1) \div 8) + 1] \div (2 ^ (7 - ((i - 1) % 8)))) % 2]

\* The first n bits of b, zero where b has no bit.
PadBits(b, n) == [i \in 1..n |-> IF i <= Len(b) THEN b[i] ELSE 0]

\* n bits of b after position pos; zero past the end of b.
ReadBits(b, pos, n) ==
    [i \in 1..n |-> IF pos + i <= Len(b) THEN b[pos + i] ELSE 0]

\* The whole bytes of a bit string.
BitsToBytes(b) ==
    [k \in 1..(Len(b) \div 8) |-> BitsToInt(SubSeq(b, 8 * (k - 1) + 1, 8 * k))]

\* The number of bits of a MAPPING_SENT index into a list of n values.
IndexBits(n) ==
    CHOOSE k \in 0..8 : 2 ^ k >= n /\ (k = 0 \/ 2 ^ (k - 1) < n)

(***************************************************************************)
(* Rules as the caller writes them (Python dicts), and the packets.        *)
(***************************************************************************)
\* A field descriptor; target_value is a byte string.
Field(id, dir, len, mo, mop, action, tv) ==
    [field |-> id, dir |-> dir, field_length |-> len, field_pos |-> 1,
     MO |-> mo, MO_param_length |-> mop, action |-> action,
     target_value |-> tv]

\* The layers of the scaled-down headers, in packet order, and their sizes in
\* bits.
Layers == <<"ipv6_rule", "udp_rule", "coap_rule">>
HeaderBits == 8

\* IPv6 layer: version equal 1 elided, traffic class ignored and elided,
\* length computed.
Ip6Lossy ==
    << Field("IP6_V", BI, 2, "EQUAL", 0, "NOTSENT", <<1>>),
       Field("IP6_TC", BI, 2, "IGNORE", 0, "NOTSENT", <<0>>),
       Field("IP6_LEN", BI, 4, "IGNORE", 0, "COMPLENGTH", <<0>>) >>

\* IPv6 layer: everything fixed by the rule or sent.
Ip6Exact ==
    << Field("IP6_V", BI, 2, "EQUAL", 0, "NOTSENT", <<1>>),
       Field("IP6_TC", BI, 2, "EQUAL", 0, "NOTSENT", <<1>>),
       Field("IP6_LEN", BI, 4, "IGNORE", 0, "VALUESENT", <<0>>) >>

\* IPv6 layer: every field sent.
Ip6Sent ==
    << Field("IP6_V", BI, 2, "IGNORE", 0, "VALUESENT", <<0>>),
       Field("IP6_TC", BI, 2, "IGNORE", 0, "VALUESENT", <<0>>),
       Field("IP6_LEN", BI, 4, "IGNORE", 0, "VALUESENT", <<0>>) >>

\* UDP layer: the two top bits of the port fixed, the rest sent; checksum
\* computed.
UdpMsb ==
    << Field("UDP_APP", BI, 4, "MSB", 2, "LSB", <<10>>),
       Field("UDP_CHK", BI, 4, "IGNORE", 0, "COMPCHK", <<0>>) >>

\* UDP layer: the port one of two values, its index sent; checksum sent.
UdpMap ==
    << Field("UDP_APP", BI, 4, "MATCHMAP", 2, "MAPPINGSENT", <<10, 6>>),
       Field("UDP_CHK", BI, 4, "IGNORE", 0, "VALUESENT", <<0>>) >>

\* UDP layer: the port one of two values and elided.
UdpMapElided ==
    << Field("UDP_APP", BI, 4, "MATCHMAP", 2, "NOTSENT", <<10, 6>>),
       Field("UDP_CHK", BI, 4, "IGNORE", 0, "VALUESENT", <<0>>) >>

UdpSent ==
    << Field("UDP_APP", BI, 4, "IGNORE", 0, "VALUESENT", <<0>>),
       Field("UDP_CHK", BI, 4, "IGNORE", 0, "VALUESENT", <<0>>) >>

\* CoAP layer: the type depends on the direction.
CoapDir ==
    << Field("COAP_T", UP, 2, "EQUAL", 0, "NOTSENT", <<0>>),
       Field("COAP_T", DOWN, 2, "EQUAL", 0, "NOTSENT", <<1>>),
       Field("COAP_C", BI, 2, "EQUAL", 0, "NOTSENT", <<1>>),
       Field("COAP_MID", BI, 4, "IGNORE", 0, "VALUESENT", <<0>>) >>

CoapSent ==
    << Field("COAP_T", BI, 2, "IGNORE", 0, "VALUESENT", <<0>>),
       Field("COAP_C", BI, 2, "IGNORE", 0, "VALUESENT", <<0>>),
       Field("COAP_MID", BI, 4, "IGNORE", 0, "VALUESENT", <<0>>) >>

PyRule(id, bits, ip6, udp, coap) ==
    [rule_id |-> id, rule_id_size_bits |-> bits, ipv6_rule |-> ip6,
     udp_rule |-> udp, coap_rule |-> coap]

\* The devices: the rule list, the uncompressed rule ID and its size.  The
\* rule IDs of a device and its uncompressed rule ID are distinct, and none
\* is a prefix of another (configurations are validated before they reach
\* the engine).
PyDevice(rules, id, bits) ==
    [rules |-> rules, uncomp_rule_id |-> id, uncomp_rule_id_size_bits |-> bits]

CompDevices ==
    { PyDevice(<<>>, 20, 8),
      PyDevice(<< PyRule(1, 8, Ip6Lossy, UdpMsb, CoapDir) >>, 20, 8),
      PyDevice(<< PyRule(1, 8, Ip6Exact, UdpMap, CoapDir),
                  PyRule(2, 8, Ip6Exact, UdpSent, CoapSent),
                  PyRule(3, 8, Ip6Sent, UdpSent, <<>>) >>, 20, 8),
      PyDevice(<< PyRule(3, 8, Ip6Sent, UdpSent, CoapSent),
                  PyRule(1, 8, Ip6Exact, UdpMap, CoapDir) >>, 20, 8),
      PyDevice(<< PyRule(1, 4, Ip6Exact, UdpMapElided, CoapSent) >>, 5, 4),
      PyDevice(<< PyRule(3, 12, Ip6Sent, UdpSent, CoapSent) >>, 20, 8) }

\* The payload of n bytes.
Payload(n) == [k \in 1..n |-> (165 + 60 * (k - 1)) % 256]

\* The checksum and the length a receiver computes for a payload.
compute_checksum(payload, len) ==
    BitsToInt(BytesToBits(payload)) % (2 ^ len)
compute_length(payload, len) == Len(payload) % (2 ^ len)

\* A packet from its header fields and its payload.
MkPacket(v, tc, len, app, chk, t, c, mid, payload) ==
    << v * 64 + tc * 16 + len, app * 16 + chk, t * 64 + c * 16 + mid >>
        \o payload

\* The packets: the computed fields right or wrong, and two packets shorter
\* than the headers.
Packets ==
    UNION { { MkPacket(1, tc, len, app, chk, t, 1, 5, Payload(n)) :
                tc \in {0, 1}, len \in {compute_length(Payload(n), 4), 9},
                app \in {10, 11, 6},
                chk \in {compute_checksum(Payload(n), 4), 10},
                t \in {0, 1} } : n \in 0..MaxPayload }
    \cup { <<>>, <<85>> }

(***************************************************************************)
(* Rule deployment (libschc.pyx, class Device).  The rejections of         *)
(* _set_field and _set_layer_rule are those of part 1; here the lists are  *)
(* accepted and the deployed structures are what the engine reads.         *)
(***************************************************************************)
\* _set_mo_op: the matching operator of a descriptor as a function pointer.
set_mo_op(mo) ==
    CASE mo = "EQUAL" -> "mo_equal"
      [] mo = "IGNORE" -> "mo_ignore"
      [] mo = "MSB" -> "mo_MSB"
      [] mo = "MATCHMAP" -> "mo_matchmap"

\* Device._set_field: the descriptor is copied; the target value is copied
\* for BITS_TO_BYTES(field_length) bytes, times MO_param_length for a mapping.
\* junk is the byte memcpy reads where it runs past the end of the caller's
\* byte string.
set_field(py_field, junk) ==
    LET field_length == py_field.field_length % 256
        MO_param_length == py_field.MO_param_length % 256
        len0 == BITS_TO_BYTES(field_length)
        target_value_len ==
            IF py_field.action = "MAPPINGSENT" \/ py_field.MO = "MATCHMAP"
            THEN len0 * MO_param_length
            ELSE len0
    IN [field |-> py_field.field,
        MO_param_length |-> MO_param_length,
        field_length |-> field_length,
        field_pos |-> py_field.field_pos % 256,
        dir |-> py_field.dir,
        action |-> py_field.action,
        target_value |->
            [i \in 1..target_value_len |->
                IF i <= Len(py_field.target_value)
                THEN py_field.target_value[i]
                ELSE junk],
        MO |-> set_mo_op(py_field.MO)]

NoLayer == [set |-> FALSE, up |-> 0, down |-> 0, length |-> 0,
            content |-> <<>>]

\* Device._set_layer_rule: the descriptors in list order, and the number of
\* descriptors per direction.
set_layer_rule(fields, junk) ==
    [set |-> TRUE,
     up |-> Cardinality({i \in 1..Len(fields) : fields[i].dir \in {UP, BI}}),
     down |->
         Cardinality({i \in 1..Len(fields) : fields[i].dir \in {DOWN, BI}}),
     length |-> Len(fields),
     content |-> [i \in 1..Len(fields) |-> set_field(fields[i], junk)]]

\* Device._set_compression_rule: a layer is deployed iff its list is not
\* empty (layers with equal lists share one structure).
set_compression_rule(py_rule, junk) ==
    [rule_id |-> py_rule.rule_id,
     rule_id_size_bits |-> py_rule.rule_id_size_bits,
     ipv6_rule |-> IF py_rule.ipv6_rule # <<>>
                   THEN set_layer_rule(py_rule.ipv6_rule, junk) ELSE NoLayer,
     udp_rule |-> IF py_rule.udp_rule # <<>>
                  THEN set_layer_rule(py_rule.udp_rule, junk) ELSE NoLayer,
     coap_rule |-> IF py_rule.coap_rule # <<>>
                   THEN set_layer_rule(py_rule.coap_rule, junk) ELSE NoLayer]

\* The mutation of compression_context: the rules deployed in reverse order.
compression_context_reversed(rules, junk) ==
    [i \in 1..Len(rules) |->
        set_compression_rule(rules[Len(rules) + 1 - i], junk)]

\* compression_rules.__set__: context[i] is the deployment of the i-th rule
\* of the list.
compression_context(rules, junk) ==
    [i \in 1..Len(rules) |-> set_compression_rule(rules[i], junk)]

(***************************************************************************)
(* The engine (specification 4.2, 4.3).                                    *)
(***************************************************************************)
applies(f, dir) == f.dir = BI \/ f.dir = dir

\* The k-th target value of a descriptor as field_length bits.
TargetBits(f, k) ==
    ReadBits(BytesToBits(f.target_value),
             8 * BITS_TO_BYTES(f.field_length) * k - f.field_length,
             f.field_length)

mo_equal(f, cand) == cand = TargetBits(f, 1)

mo_ignore(f, cand) == TRUE

mo_MSB(f, cand) ==
    ReadBits(cand, 0, f.MO_param_length)
        = ReadBits(TargetBits(f, 1), 0, f.MO_param_length)

mo_matchmap(f, cand) ==
    \E k \in 1..f.MO_param_length : TargetBits(f, k) = cand

MO_matches(f, cand) ==
    CASE f.MO = "mo_equal" -> mo_equal(f, cand)
      [] f.MO = "mo_ignore" -> mo_ignore(f, cand)
      [] f.MO = "mo_MSB" -> mo_MSB(f, cand)
      [] f.MO = "mo_matchmap" -> mo_matchmap(f, cand)

\* The index (from 0) of the first target value equal to the candidate.
MappingIndex(f, cand) ==
    IF mo_matchmap(f, cand)
    THEN (CHOOSE k \in 1..f.MO_param_length :
              /\ TargetBits(f, k) = cand
              /\ \A j \in 1..(k - 1) : TargetBits(f, j) # cand) - 1
    ELSE 0

\* The residue of one field.
field_residue(f, cand) ==
    CASE f.action = "VALUESENT" -> cand
      [] f.action = "MAPPINGSENT" ->
             IntToBits(MappingIndex(f, cand), IndexBits(f.MO_param_length))
      [] f.action = "LSB" ->
             ReadBits(cand, f.MO_param_length,
                      f.field_length - f.MO_param_length)
      [] OTHER -> <<>>

\* The number of residue bits of one field.
residue_len(f) ==
    CASE f.action = "VALUESENT" -> f.field_length
      [] f.action = "MAPPINGSENT" -> IndexBits(f.MO_param_length)
      [] f.action = "LSB" -> f.field_length - f.MO_param_length
      [] OTHER -> 0

\* Every descriptor of the layer from the i-th on that applies to dir
\* matches the header bits H at its position.
RECURSIVE layer_matches(_, _, _, _, _)
layer_matches(content, i, H, pos, dir) ==
    IF i > Len(content) THEN TRUE
    ELSE IF ~applies(content[i], dir)
         THEN layer_matches(content, i + 1, H, pos, dir)
         ELSE /\ MO_matches(content[i],
                            ReadBits(H, pos, content[i].field_length))
              /\ layer_matches(content, i + 1, H,
                               pos + content[i].field_length, dir)

\* The residue of the layer from its i-th descriptor on.
RECURSIVE layer_residue(_, _, _, _, _)
layer_residue(content, i, H, pos, dir) ==
    IF i > Len(content) THEN <<>>
    ELSE IF ~applies(content[i], dir)
         THEN layer_residue(content, i + 1, H, pos, dir)
         ELSE field_residue(content[i],
                            ReadBits(H, pos, content[i].field_length))
              \o layer_residue(content, i + 1, H,
                               pos + content[i].field_length, dir)

\* The header bits of the l-th layer of a packet.
LayerHeader(bits, l) == ReadBits(bits, HeaderBits * (l - 1), HeaderBits)

\* The end of the headers a rule describes: that of its last layer.
HeaderEnd(rule) ==
    IF rule.coap_rule.set THEN 3 * HeaderBits
    ELSE IF rule.udp_rule.set THEN 2 * HeaderBits
    ELSE IF rule.ipv6_rule.set THEN HeaderBits
    ELSE 0

\* A rule matches iff the packet holds the headers of the rule's layers and
\* every descriptor that applies to dir matches.
rule_matches(rule, bits, dir) ==
    /\ Len(bits) >= HeaderEnd(rule)
    /\ \A l \in 1..3 :
           rule[Layers[l]].set =>
               layer_matches(rule[Layers[l]].content, 1,
                             LayerHeader(bits, l), 0, dir)

\* The first rule of the context that matches, 0 if none does.
schc_find_rule(ctx, bits, dir) ==
    IF \E i \in 1..Len(ctx) : rule_matches(ctx[i], bits, dir)
    THEN CHOOSE i \in 1..Len(ctx) :
             /\ rule_matches(ctx[i], bits, dir)
             /\ \A j \in 1..(i - 1) : ~rule_matches(ctx[j], bits, dir)
    ELSE 0

rule_residue(rule, bits, dir) ==
    LET res(l) == IF rule[Layers[l]].set
                  THEN layer_residue(rule[Layers[l]].content, 1,
                                     LayerHeader(bits, l), 0, dir)
                  ELSE <<>>
    IN res(1) \o res(2) \o res(3)

\* The compressed form: rule ID, residue, and what follows the headers.
compressed_bits(rule, bits, dir) ==
    IntToBits(rule.rule_id, rule.rule_id_size_bits)
        \o rule_residue(rule, bits, dir)
        \o SubSeq(bits, HeaderEnd(rule) + 1, Len(bits))

\* The uncompressed form: the device's uncompressed rule ID and the packet.
uncompressed_bits(dev, bits) ==
    IntToBits(dev.uncomp_rule_id, dev.uncomp_rule_id_size_bits) \o bits

\* schc_compress: the first matching rule's compressed form, else the
\* uncompressed form, written to dst.  The engine is given no capacity, so
\* a form longer than the buffer is written past its end (overflow).
schc_compress(data, dst_size, dev, dir) ==
    LET bits == BytesToBits(data)
        i == schc_find_rule(dev.compression_context, bits, dir)
        out == IF i = 0 THEN uncompressed_bits(dev, bits)
               ELSE compressed_bits(dev.compression_context[i], bits, dir)
        len == BITS_TO_BYTES(Len(out))
    IN [rule |-> i,
        bit_array |->
            [size |-> dst_size,
             bits |-> PadBits(out, 8 * len),
             offset |-> IF i = 0 THEN dev.uncomp_rule_id_size_bits
                        ELSE dev.compression_context[i].rule_id_size_bits,
             padding |-> 8 * len - Len(out),
             len |-> len,
             bit_len |-> Len(out)],
        overflow |-> len > dst_size]

\* The header a receiver rebuilds for a layer from its i-th descriptor on:
\* target values, residue bits read at pos, computed values.
RECURSIVE layer_decompress(_, _, _, _, _, _)
layer_decompress(content, i, avail, pos, dir, payload) ==
    IF i > Len(content) THEN <<>>
    ELSE LET f == content[i] IN
         IF ~applies(f, dir)
         THEN layer_decompress(content, i + 1, avail, pos, dir, payload)
         ELSE (CASE f.action = "NOTSENT" -> TargetBits(f, 1)
                 [] f.action = "VALUESENT" ->
                        ReadBits(avail, pos, f.field_length)
                 [] f.action = "MAPPINGSENT" ->
                        TargetBits(f,
                            BitsToInt(ReadBits(avail, pos,
                                IndexBits(f.MO_param_length))) + 1)
                 [] f.action = "LSB" ->
                        ReadBits(TargetBits(f, 1), 0, f.MO_param_length)
                            \o ReadBits(avail, pos,
                                   f.field_length - f.MO_param_length)
                 [] f.action = "COMPLENGTH" ->
                        IntToBits(compute_length(payload, f.field_length),
                                  f.field_length)
                 [] f.action = "COMPCHK" ->
                        IntToBits(compute_checksum(payload, f.field_length),
                                  f.field_length)
                 [] OTHER -> IntToBits(0, f.field_length))
              \o layer_decompress(content, i + 1, avail, pos + residue_len(f),
                                  dir, payload)

\* The number of residue bits of a layer for a direction.
RECURSIVE layer_residue_len(_, _, _)
layer_residue_len(content, i, dir) ==
    IF i > Len(content) THEN 0
    ELSE (IF applies(content[i], dir) THEN residue_len(content[i]) ELSE 0)
         + layer_residue_len(content, i + 1, dir)

\* The packet rebuilt under a rule from the received bits.
rule_decompress(rule, avail, dir) ==
    LET rlen(l) == IF rule[Layers[l]].set
                   THEN layer_residue_len(rule[Layers[l]].content, 1, dir)
                   ELSE 0
        p1 == rule.rule_id_size_bits
        p2 == p1 + rlen(1)
        p3 == p2 + rlen(2)
        p4 == p3 + rlen(3)
        npayload == IF Len(avail) > p4 THEN (Len(avail) - p4) \div 8 ELSE 0
        payload == BitsToBytes(ReadBits(avail, p4, 8 * npayload))
        hdr(l, pos) == IF rule[Layers[l]].set
                       THEN layer_decompress(rule[Layers[l]].content, 1,
                                             avail, pos, dir, payload)
                       ELSE <<>>
        header == hdr(1, p1) \o hdr(2, p2) \o hdr(3, p3)
    IN BitsToBytes(PadBits(header, 8 * BITS_TO_BYTES(Len(header))))
           \o payload

\* The rules whose ID the received bits start with.
rule_id_hits(ctx, avail) ==
    {i \in 1..Len(ctx) :
        /\ Len(avail) >= ctx[i].rule_id_size_bits
        /\ ReadBits(avail, 0, ctx[i].rule_id_size_bits)
               = IntToBits(ctx[i].rule_id, ctx[i].rule_id_size_bits)}

uncomp_hit(dev, avail) ==
    /\ Len(avail) >= dev.uncomp_rule_id_size_bits
    /\ ReadBits(avail, 0, dev.uncomp_rule_id_size_bits)
           = IntToBits(dev.uncomp_rule_id, dev.uncomp_rule_id_size_bits)

\* schc_decompress: the packet the engine writes to buf for total_length
\* received bytes.  A compression rule found by its ID rebuilds the headers;
\* the uncompressed rule ID makes the rest a verbatim copy; an unknown ID
\* yields nothing (length 0).
schc_decompress(bit_array, dev, total_length, dir) ==
    LET avail == ReadBits(bit_array.bits, 0, 8 * total_length)
        hits == rule_id_hits(dev.compression_context, avail)
        first == CHOOSE i \in hits : \A j \in hits : i <= j
    IN IF hits # {}
       THEN rule_decompress(dev.compression_context[first], avail, dir)
       ELSE IF uncomp_hit(dev, avail)
       THEN BitsToBytes(ReadBits(avail, dev.uncomp_rule_id_size_bits,
                8 * ((Len(avail) - dev.uncomp_rule_id_size_bits) \div 8)))
       ELSE <<>>

(***************************************************************************)
(* BitArray construction (libschc.pyx, BitArray.__cinit__).  The record    *)
(* holds the allocation (size bytes, as bits) and the fields of            *)
(* schc_bitarray_t; len is a uint16_t.                                     *)
(***************************************************************************)
\* BitArray(n) for n of type bytes.
cinit_bytes(n) ==
    [size |-> Len(n), bits |-> BytesToBits(n), offset |-> 0, padding |-> 0,
     len |-> Len(n) % 65536, bit_len |-> Len(n) * 8]

\* BitArray(n) for an integer n: n zero bytes.
cinit_int(n) ==
    [size |-> n, bits |-> [i \in 1..(8 * n) |-> 0], offset |-> 0,
     padding |-> 0, len |-> n % 65536, bit_len |-> 0]

(***************************************************************************)
(* The wrapper (libschc.pyx, class CompressorDecompressor).                *)
(***************************************************************************)
\* The mutation of compress_buffer_size: no room for the rule ID.
compress_buffer_size_short(data, dev) == Len(data)

\* compress: the size of the BitArray handed to the engine.
compress_buffer_size(data, dev) ==
    Len(data) + BITS_TO_BYTES(dev.uncomp_rule_id_size_bits)

\* The mutation of compress: the direction is not looked at.
compress_bi_unchecked(data, dev, dir) ==
    LET r == schc_compress(data, compress_buffer_size(data, dev), dev, dir)
    IN [result |-> IF r.rule = 0
                   THEN IF r.bit_array.len = 0 THEN "ValueError"
                        ELSE "UNCOMPRESSED"
                   ELSE "COMPRESSED",
        rule |-> r.rule,
        overflow |-> r.overflow,
        bit_array |-> r.bit_array]

\* compress: BI is rejected; a NULL rule with an empty bit array is an
\* error, a NULL rule otherwise is the uncompressed result.
compress(data, dev, dir) ==
    IF dir = BI
    THEN [result |-> "ValueError", rule |-> 0, overflow |-> FALSE,
          bit_array |-> <<>>]
    ELSE LET r == schc_compress(data, compress_buffer_size(data, dev),
                                dev, dir)
         IN [result |-> IF r.rule = 0
                        THEN IF r.bit_array.len = 0 THEN "ValueError"
                             ELSE "UNCOMPRESSED"
                        ELSE "COMPRESSED",
             rule |-> r.rule,
             overflow |-> r.overflow,
             bit_array |-> r.bit_array]

\* The mutation of decompress: the engine is told the capacity of the bit
\* array instead of its length.
decompress_whole_size(bit_array, dev, dir) ==
    IF dir = BI
    THEN [result |-> "ValueError", out |-> <<>>, overflow |-> FALSE]
    ELSE LET o == schc_decompress(bit_array, dev, bit_array.size % 65536,
                                  dir)
         IN [result |-> "bytes",
             out |-> SubSeq(o, 1, IF (Len(o) % 65536) < MAX_MTU_LENGTH
                                  THEN Len(o) % 65536 ELSE MAX_MTU_LENGTH),
             overflow |-> Len(o) > MAX_MTU_LENGTH]

\* decompress: BI is rejected; otherwise the engine is told bit_arr.length,
\* writes to a buffer of MAX_MTU_LENGTH bytes and returns the length as
\* uint16_t; the result is buf[:length], whatever the length is.
decompress(bit_array, dev, dir) ==
    IF dir = BI
    THEN [result |-> "ValueError", out |-> <<>>, overflow |-> FALSE]
    ELSE LET o == schc_decompress(bit_array, dev, bit_array.len % 65536, dir)
         IN [result |-> "bytes",
             out |-> SubSeq(o, 1, IF (Len(o) % 65536) < MAX_MTU_LENGTH
                                  THEN Len(o) % 65536 ELSE MAX_MTU_LENGTH),
             overflow |-> Len(o) > MAX_MTU_LENGTH]

InitComp ==
    /\ cdev = [configured |-> FALSE, py_rules |-> <<>>,
               compression_context |-> <<>>, compression_rule_count |-> 0,
               uncomp_rule_id |-> 0, uncomp_rule_id_size_bits |-> 0]
    /\ cpkt = <<>>
    /\ cdir = UP
    /\ cphase = "start"
    /\ cres = [result |-> "none", rule |-> 0, overflow |-> FALSE]
    /\ cbits = <<>>
    /\ cout = <<>>

CompOnly ==
    UNCHANGED <<regVars, timerVars, fragVars, bitVars, deployVars>>

\* The device is configured: compression_rules, uncompressed_rule_id and
\* uncompressed_rule_id_size_bits are assigned.
CompConfigure(d, junk) ==
    /\ cphase = "start"
    /\ ~cdev.configured
    /\ cdev' = [configured |-> TRUE, py_rules |-> d.rules,
                compression_context |-> compression_context(d.rules, junk),
                compression_rule_count |-> Len(d.rules),
                uncomp_rule_id |-> d.uncomp_rule_id,
                uncomp_rule_id_size_bits |-> d.uncomp_rule_id_size_bits]
    /\ UNCHANGED <<cpkt, cdir, cphase, cres, cbits, cout>>
    /\ CompOnly

\* CompressorDecompressor.compress(data, device, dir).  A write past the end
\* of the bit array is undefined: the process dies, or the bytes land and
\* stay, or the bytes past the end are lost.
Compress(data, dir) ==
    /\ cphase = "start"
    /\ cdev.configured
    /\ cpkt' = data
    /\ LET r == compress(data, cdev, dir) IN
       /\ cdir' = dir
       /\ cres' = [result |-> r.result, rule |-> r.rule,
                   overflow |-> r.overflow]
       /\ IF r.result = "ValueError"
          THEN cphase' = "raised" /\ cbits' = <<>>
          ELSE IF r.overflow
               THEN \/ cphase' = "crashed" /\ cbits' = <<>>
                    \/ cphase' = "compressed" /\ cbits' = r.bit_array
                    \/ /\ cphase' = "compressed"
                       /\ cbits' = [r.bit_array EXCEPT
                              !.bits = PadBits(
                                  ReadBits(r.bit_array.bits, 0,
                                           8 * r.bit_array.size),
                                  8 * r.bit_array.len)]
               ELSE cphase' = "compressed" /\ cbits' = r.bit_array
    /\ UNCHANGED <<cdev, cout>>
    /\ CompOnly

\* CompressorDecompressor.decompress(bit_arr, device, dir) on the bit array
\* compress returned.
Decompress(dir) ==
    /\ cphase = "compressed"
    /\ dir \in {cdir, BI}
    /\ cdir' = dir
    /\ LET r == decompress(cbits, cdev, dir) IN
           /\ cout' = r.out
           /\ cphase' \in (IF r.result = "ValueError" THEN {"raised"}
                           ELSE IF r.overflow THEN {"crashed", "decompressed"}
                           ELSE {"decompressed"})
    /\ UNCHANGED <<cdev, cpkt, cres, cbits>>
    /\ CompOnly

\* The byte strings a receiver is handed: a deployed rule ID with residue,
\* the uncompressed rule ID with a packet, and IDs no device above knows.
Received ==
    { <<1, 80, 165>>, <<3, 69, 160, 21>>, <<20, 69, 160, 21>>, <<81, 165>>,
      <<77>>, <<77, 16, 32>>, <<255, 255>>, <<>> }

\* BitArray(data) for bytes that came from the network.
Receive(data) ==
    /\ cphase = "start"
    /\ cdev.configured
    /\ cbits' = cinit_bytes(data)
    /\ cphase' = "buffered"
    /\ UNCHANGED <<cdev, cpkt, cdir, cres, cout>>
    /\ CompOnly

\* CompressorDecompressor.decompress(bit_arr, device, dir) on that bit
\* array.
DecompressReceived(dir) ==
    /\ cphase = "buffered"
    /\ cdir' = dir
    /\ LET r == decompress(cbits, cdev, dir) IN
           /\ cout' = r.out
           /\ cphase' \in (IF r.result = "ValueError" THEN {"raised"}
                           ELSE IF r.overflow THEN {"crashed", "received"}
                           ELSE {"received"})
    /\ UNCHANGED <<cdev, cpkt, cres, cbits>>
    /\ CompOnly

NextComp ==
    \/ \E d \in CompDevices, junk \in {0, 255} : CompConfigure(d, junk)
    \/ \E data \in Packets, dir \in {UP, DOWN, BI} : Compress(data, dir)
    \/ \E dir \in {UP, DOWN, BI} : Decompress(dir)
    \/ \E data \in Received : Receive(data)
    \/ \E dir \in {UP, DOWN, BI} : DecompressReceived(dir)

(***************************************************************************)
(* What the caller's rule list says about a packet, read off the Python    *)
(* rules and the packet bytes with integer arithmetic.                     *)
(***************************************************************************)
\* The descriptors of a list that apply to dir, in list order.
PyApplicable(fields, dir) ==
    LET T(f) == f.dir \in {dir, BI} IN SelectSeq(fields, T)

RECURSIVE SumLengths(_, _)
SumLengths(fs, n) ==
    IF n = 0 THEN 0 ELSE fs[n].field_length + SumLengths(fs, n - 1)

\* The value of the header field the i-th of the descriptors fs addresses in
\* the l-th header byte of P.
PyFieldValue(P, l, fs, i) ==
    (P[l] \div (2 ^ (HeaderBits - SumLengths(fs, i))))
        % (2 ^ fs[i].field_length)

\* The k-th target value of a descriptor (one byte per value).
PyTarget(f, k) == f.target_value[k] % (2 ^ f.field_length)

PyMsbEqual(f, v) ==
    v \div (2 ^ (f.field_length - f.MO_param_length))
        = PyTarget(f, 1) \div (2 ^ (f.field_length - f.MO_param_length))

PyFieldMatches(f, v) ==
    CASE f.MO = "EQUAL" -> v = PyTarget(f, 1)
      [] f.MO = "IGNORE" -> TRUE
      [] f.MO = "MSB" -> PyMsbEqual(f, v)
      [] f.MO = "MATCHMAP" ->
             \E k \in 1..f.MO_param_length : v = PyTarget(f, k)

\* The number of header bytes a rule describes.
PyHeaderBytes(rule) ==
    IF rule.coap_rule # <<>> THEN 3
    ELSE IF rule.udp_rule # <<>> THEN 2
    ELSE IF rule.ipv6_rule # <<>> THEN 1
    ELSE 0

\* Every descriptor the rule declares for dir matches P.
PyRuleMatches(rule, P, dir) ==
    /\ Len(P) >= PyHeaderBytes(rule)
    /\ \A l \in 1..3 :
           LET fs == PyApplicable(rule[Layers[l]], dir)
           IN \A i \in 1..Len(fs) :
                  PyFieldMatches(fs[i], PyFieldValue(P, l, fs, i))

\* The first rule of the list that matches, 0 if none does.
PyFirstMatch(rules, P, dir) ==
    IF \E i \in 1..Len(rules) : PyRuleMatches(rules[i], P, dir)
    THEN CHOOSE i \in 1..Len(rules) :
             /\ PyRuleMatches(rules[i], P, dir)
             /\ \A j \in 1..(i - 1) : ~PyRuleMatches(rules[j], P, dir)
    ELSE 0

\* The field has the value a receiver puts in its place.
PyFieldKept(f, v, payload) ==
    CASE f.action = "VALUESENT" -> TRUE
      [] f.action = "NOTSENT" -> v = PyTarget(f, 1)
      [] f.action = "MAPPINGSENT" ->
             \E k \in 1..f.MO_param_length : v = PyTarget(f, k)
      [] f.action = "LSB" -> PyMsbEqual(f, v)
      [] f.action = "COMPLENGTH" ->
             v = compute_length(payload, f.field_length)
      [] f.action = "COMPCHK" ->
             v = compute_checksum(payload, f.field_length)
      [] OTHER -> FALSE

\* Every header field of P has, under the rule, the value a receiver puts in
\* its place.
PyRuleKeeps(rule, P, dir) ==
    \A l \in 1..3 :
        LET fs == PyApplicable(rule[Layers[l]], dir)
        IN \A i \in 1..Len(fs) :
               PyFieldKept(fs[i], PyFieldValue(P, l, fs, i),
                           SubSeq(P, PyHeaderBytes(rule) + 1, Len(P)))

\* The bit array starts with the given rule ID.
StartsWithId(bit_array, id, size) ==
    /\ 8 * bit_array.len >= size
    /\ ReadBits(bit_array.bits, 0, size) = IntToBits(id, size)

Compressed == cphase \in {"compressed", "decompressed"}

\* C1 as stated: whenever some rule of the device matches the packet,
\* decompressing the compressed packet in the same direction returns the
\* packet.
C1_RoundTrip ==
    (cphase = "decompressed" /\ PyFirstMatch(cdev.py_rules, cpkt, cdir) # 0)
        => cout = cpkt

\* C1, for the packets compression is not lossy for: whenever a rule of the
\* device matches the packet and every header field has under the selected
\* rule the value a receiver puts in its place, decompressing the
\* compressed packet in the same direction returns the packet.
C1_RoundTripOfKeptFields ==
    (/\ cphase = "decompressed"
     /\ PyFirstMatch(cdev.py_rules, cpkt, cdir) # 0
     /\ PyRuleKeeps(cdev.py_rules[PyFirstMatch(cdev.py_rules, cpkt, cdir)],
                    cpkt, cdir))
        => cout = cpkt

\* The round trip of those packets whose compressed form fits the bit
\* array compress allocated.
C1_RoundTripWithinBuffer ==
    (/\ cphase = "decompressed"
     /\ PyFirstMatch(cdev.py_rules, cpkt, cdir) # 0
     /\ PyRuleKeeps(cdev.py_rules[PyFirstMatch(cdev.py_rules, cpkt, cdir)],
                    cpkt, cdir)
     /\ ~cres.overflow)
        => cout = cpkt

C1_Witness ==
    /\ cphase = "decompressed"
    /\ PyFirstMatch(cdev.py_rules, cpkt, cdir) # 0
    /\ PyRuleKeeps(cdev.py_rules[PyFirstMatch(cdev.py_rules, cpkt, cdir)],
                   cpkt, cdir)
    /\ ~cres.overflow
    /\ cbits.len < Len(cpkt)
    /\ Len(cpkt) > 3
    /\ cout = cpkt

\* The compressed form was one byte longer than the bit array, the byte
\* past its end was lost, and another packet came back.
C1_OverflowWitness ==
    /\ cphase = "decompressed"
    /\ PyFirstMatch(cdev.py_rules, cpkt, cdir) # 0
    /\ PyRuleKeeps(cdev.py_rules[PyFirstMatch(cdev.py_rules, cpkt, cdir)],
                   cpkt, cdir)
    /\ cres.overflow
    /\ cout # cpkt

\* C2: whenever no rule of the device matches the packet (the device may
\* have no rules), compress returns UNCOMPRESSED and decompressing its output
\* in the same direction returns the packet.
C2_UncompressedFallback ==
    (Compressed /\ PyFirstMatch(cdev.py_rules, cpkt, cdir) = 0)
        => /\ cres.result = "UNCOMPRESSED"
           /\ cphase = "decompressed" => cout = cpkt

C2_Witness ==
    /\ cphase = "decompressed"
    /\ Len(cdev.py_rules) > 0
    /\ Len(cpkt) > 3
    /\ PyFirstMatch(cdev.py_rules, cpkt, cdir) = 0
    /\ cres.result = "UNCOMPRESSED"
    /\ cout = cpkt

\* C2, the device without rules: compress returns UNCOMPRESSED and the round
\* trip returns the packet.
C2_NoRulesWitness ==
    /\ cphase = "decompressed"
    /\ Len(cdev.py_rules) = 0
    /\ Len(cpkt) > 3
    /\ cres.result = "UNCOMPRESSED"
    /\ cout = cpkt

\* C9: compress selects the first rule, in the order of the list assigned to
\* compression_rules, whose descriptors for the direction all match the
\* packet, and no rule if none matches; the output starts with that rule's
\* ID.
C9_FirstMatchingRule ==
    Compressed =>
        /\ cres.rule = PyFirstMatch(cdev.py_rules, cpkt, cdir)
        /\ cres.rule # 0 =>
               StartsWithId(cbits, cdev.py_rules[cres.rule].rule_id,
                            cdev.py_rules[cres.rule].rule_id_size_bits)

C9_Witness ==
    /\ Compressed
    /\ cres.rule = 2
    /\ Len(cdev.py_rules) = 3
    /\ ~PyRuleMatches(cdev.py_rules[1], cpkt, cdir)
    /\ PyRuleMatches(cdev.py_rules[2], cpkt, cdir)
    /\ PyRuleMatches(cdev.py_rules[3], cpkt, cdir)

\* The bit array starts with no rule ID of the device's list and not with
\* its uncompressed rule ID.
UnknownRuleId(bit_array, dev) ==
    /\ ~StartsWithId(bit_array, dev.uncomp_rule_id,
                     dev.uncomp_rule_id_size_bits)
    /\ \A i \in 1..Len(dev.py_rules) :
           ~StartsWithId(bit_array, dev.py_rules[i].rule_id,
                         dev.py_rules[i].rule_id_size_bits)

\* C13 as stated: decompress of a buffer whose rule-ID prefix the device
\* does not know fails with an error; it never returns to the caller.
C13_UnknownRuleIdFails ==
    cphase = "received" => ~UnknownRuleId(cbits, cdev)

\* What the code does instead: the call returns, with the empty byte string.
C13_UnknownRuleIdYieldsEmpty ==
    (cphase = "received" /\ UnknownRuleId(cbits, cdev)) => cout = <<>>

C13_UnknownReached ==
    /\ cphase = "received"
    /\ UnknownRuleId(cbits, cdev)
    /\ cbits.len = 3
    /\ Len(cdev.py_rules) = 3

\* C14: a call of compress or decompress with direction BI raises
\* ValueError and nothing else happens: no bit array and no bytes are
\* produced, and the device, its rules and the bit array handed in are as
\* before the call.
C14_BiRejectedBeforeEngine ==
    [][(cphase' \notin {cphase, "buffered"} /\ cdir' = BI) =>
           /\ cphase' = "raised"
           /\ cout' = <<>>
           /\ UNCHANGED <<cdev, cbits, cout, cres.rule, cres.overflow>>]_vars

C14_Witness ==
    /\ cphase = "raised"
    /\ cdir = BI
    /\ cpkt \in Packets \ {<<>>}
    /\ cres.result = "ValueError"
    /\ PyFirstMatch(cdev.py_rules, cpkt, UP) # 0

C14_DecompressWitness ==
    /\ cphase = "raised"
    /\ cdir = BI
    /\ cres.result = "COMPRESSED"
    /\ cbits.bit_len > 0
    /\ cout = <<>>

C14_ReceivedWitness ==
    /\ cphase = "raised"
    /\ cdir = BI
    /\ cres.result = "none"
    /\ cbits.bit_len > 0
    /\ cout = <<>>

\* C20 as stated: the bit array compress allocates, len(packet) bytes and
\* the bytes of the device's uncompressed rule ID, holds whatever the engine
\* writes to it.
C20_OutputBufferSuffices == ~cres.overflow

\* The engine writes past the end only under a rule whose ID is wider than
\* the uncompressed rule ID the buffer was sized for.
C20_OverflowNeedsWiderId ==
    cres.overflow =>
        /\ cres.rule # 0
        /\ cdev.py_rules[cres.rule].rule_id_size_bits
               > cdev.uncomp_rule_id_size_bits

C20_OverflowReached ==
    /\ cres.overflow
    /\ cres.result = "COMPRESSED"
    /\ cphase = "compressed"
    /\ cbits.len = Len(cpkt) + 2
    /\ cbits.size = Len(cpkt) + 1

(***************************************************************************)
(* Part 4: fragmentation and reassembly.                                   *)
(*                                                                         *)
(* The wrapper steps (init_tx, fragment, input, reassemble, reset, the     *)
(* callbacks) are those of libschc.pyx, class FragmentationConnection.     *)
(* The state machines of the engine (fragmenter.c) are modelled from the   *)
(* specification, sections 4.4 and 5: the sender in INIT_TX, SEND,         *)
(* RESEND, WAIT_BITMAP, END_TX and ERR, the receiver in RECV_WINDOW,       *)
(* WAIT_NEXT_WINDOW, WAIT_MISSING_FRAG, END_RX and ABORT.                  *)
(*                                                                         *)
(* Sizes are scaled down: a fragment has one header byte, the windowed     *)
(* rules have a fragment counter of 2 bits and windows of 3 tiles, and     *)
(* packets have at most MaxLen bytes.  Fragments and ACKs are records of   *)
(* the header fields the specification names (rule, window bit, FCN,       *)
(* bitmap, MIC) and the tile.                                              *)
(***************************************************************************)
MaxLen == 5

MAX_ACK_REQUESTS == 3

\* Where this bound is applied, the retransmission timer of a window runs
\* out early, with something in flight, MaxUntimely times at most, before
\* any later retransmission round of the window.
MaxUntimely == 1

\* Where this bound is applied, the receiver is handed one of the
\* MaxOvertake oldest datagrams in flight.
MaxOvertake == 2

FragHeaderBytes == 1

MTUs == {2, 3}

AckModes == {"ACK_ON_ERROR", "ACK_ALWAYS"}

Modes == {"NO_ACK"} \cup AckModes

\* The fragmentation rules of the device, one per reliability mode: no
\* windows under NO_ACK, windows of 3 tiles under ACK_ON_ERROR and of 2 tiles
\* under ACK_ALWAYS.
FragRule(mode) ==
    IF mode = "NO_ACK"
    THEN [mode |-> mode, FCN_SIZE |-> 1, MAX_WND_FCN |-> 0, WINDOW_SIZE |-> 0]
    ELSE IF mode = "ACK_ON_ERROR"
    THEN [mode |-> mode, FCN_SIZE |-> 2, MAX_WND_FCN |-> 2, WINDOW_SIZE |-> 1]
    ELSE [mode |-> mode, FCN_SIZE |-> 2, MAX_WND_FCN |-> 1, WINDOW_SIZE |-> 1]

FragRules == <<FragRule("NO_ACK"), FragRule("ACK_ON_ERROR"),
               FragRule("ACK_ALWAYS")>>

rule_lookup_falls_back(mode) == 1

\* The index in the device's fragmentation context of the first rule of the
\* mode, 0 for NULL.
get_fragmentation_rule_by_reliability_mode(mode) ==
    IF \E i \in 1..Len(FragRules) : FragRules[i].mode = mode
    THEN CHOOSE i \in 1..Len(FragRules) :
             /\ FragRules[i].mode = mode
             /\ \A j \in 1..(i - 1) : FragRules[j].mode # mode
    ELSE 0

\* The FCN of the last fragment of a packet: all bits set.
All1(rule) == 2 ^ rule.FCN_SIZE - 1

\* The number of tiles of a window.
WindowTiles(rule) == rule.MAX_WND_FCN + 1

FullBitmap(rule) == 0..rule.MAX_WND_FCN

\* The packet of n bytes: its bytes differ, so that a tile out of place or
\* missing changes the buffer.
FragPacket(n) == [k \in 1..n |-> k]

\* Another packet of n bytes: it differs from FragPacket(n) in every byte.
OtherPacket(n) == [k \in 1..n |-> (k % MaxLen) + 1]

\* The MIC of a buffer.  It stands for the 4-byte checksum: it is computed
\* over the bytes in their order and has a fixed width (eight digits of
\* radix MicBase), and no buffer of this model has the MIC of a packet but
\* the packet (a byte is never 0).
MicBase == 10

RECURSIVE compute_mic(_)
compute_mic(bytes) ==
    IF bytes = <<>> THEN 0
    ELSE (compute_mic(SubSeq(bytes, 1, Len(bytes) - 1)) * MicBase
          + bytes[Len(bytes)]) % (MicBase ^ 8)

RECURSIVE Flatten(_)
Flatten(tiles) ==
    IF tiles = <<>> THEN <<>> ELSE Head(tiles) \o Flatten(Tail(tiles))

(***************************************************************************)
(* The sender.                                                             *)
(***************************************************************************)
\* bit_arr is "set" while conn.bit_arr points to a BitArray, whose bytes are
\* packet, and "NULL" otherwise.
NoTx == [state |-> "INIT_TX", mode |-> "none", packet |-> <<>>, tile |-> 1,
         window |-> 0, next |-> 1, attempts |-> 0, ack_bitmap |-> {},
         bit_arr |-> "NULL"]

\* schc_fragmenter_init, which init_tx calls first: the state machine of the
\* sender is put back to INIT_TX and its counters are cleared.  The array,
\* the MTU and the rule are what init_tx assigns after it.
schc_fragmenter_init(tx) ==
    [tx EXCEPT !.state = "INIT_TX", !.window = 0, !.next = 1,
               !.attempts = 0, !.ack_bitmap = {}]

NumTiles(tx) == (Len(tx.packet) + tx.tile - 1) \div tx.tile

Tile(tx, k) ==
    SubSeq(tx.packet, (k - 1) * tx.tile + 1,
           IF k * tx.tile < Len(tx.packet) THEN k * tx.tile
           ELSE Len(tx.packet))

\* The window and the position in its window of tile k.
TileWindow(tx, k) == (k - 1) \div WindowTiles(FragRule(tx.mode))

TilePos(tx, k) == (k - 1) % WindowTiles(FragRule(tx.mode))

\* The fragment of tile k: the last tile of the packet has the all-1 FCN and
\* carries the MIC, the others count down to 0 within their window.
Frag(tx, k) ==
    LET rule == FragRule(tx.mode) IN
    [type |-> "frag", mode |-> tx.mode,
     w    |-> IF rule.WINDOW_SIZE = 0 THEN 0 ELSE TileWindow(tx, k) % 2,
     fcn  |-> IF k = NumTiles(tx) THEN All1(rule)
              ELSE rule.MAX_WND_FCN - TilePos(tx, k),
     tile |-> Tile(tx, k),
     mic  |-> IF k = NumTiles(tx) THEN compute_mic(tx.packet) ELSE 0]

Ack(w, bitmap, ok) ==
    [type |-> "ack", w |-> w, bitmap |-> bitmap, mic_ok |-> ok]

\* SEND, mutated: the sender waits for a bitmap after the last fragment
\* under every mode.
tx_sent_waits(tx, k) ==
    [tx EXCEPT !.next = k + 1,
               !.state = IF k = NumTiles(tx) THEN "WAIT_BITMAP" ELSE "SEND"]

\* SEND: the state after fragment k was sent.
tx_sent(tx, k) ==
    LET f == Frag(tx, k) IN
    [tx EXCEPT !.next = k + 1,
               !.state = IF k = NumTiles(tx)
                         THEN (IF tx.mode = "NO_ACK" THEN "END_TX"
                               ELSE "WAIT_BITMAP")
                         ELSE IF tx.mode \in AckModes /\ f.fcn = 0
                              THEN "WAIT_BITMAP"
                              ELSE "SEND"]

\* The ACK handling, mutated: the state of the sender is not looked at.
tx_ack_in_any_state(tx, a) ==
    IF a.mic_ok THEN [tx EXCEPT !.state = "END_TX"]
    ELSE [tx EXCEPT !.state = "WAIT_BITMAP", !.ack_bitmap = a.bitmap]

\* WAIT_BITMAP or RESEND: an ACK arrived.  A satisfactory ACK ends the
\* transfer after the last window and starts the next window otherwise; any
\* other ACK of the window leaves its bitmap for the retransmission.  In
\* every other state the sender waits for no ACK and drops it.
tx_ack(tx, a) ==
    IF tx.state \notin {"WAIT_BITMAP", "RESEND"} \/ a.w # tx.window % 2 THEN tx
    ELSE IF tx.next > NumTiles(tx)
         THEN (IF a.mic_ok THEN [tx EXCEPT !.state = "END_TX"]
               ELSE [tx EXCEPT !.ack_bitmap = a.bitmap])
         ELSE IF a.bitmap = FullBitmap(FragRule(tx.mode))
              THEN [tx EXCEPT !.state = "SEND", !.window = @ + 1,
                              !.attempts = 0, !.ack_bitmap = {}]
              ELSE [tx EXCEPT !.ack_bitmap = a.bitmap]

\* RESEND, mutated: only the last fragment of the packet is sent again.
resend_last_only(tx, k) ==
    IF tx.next > NumTiles(tx) THEN <<Frag(tx, NumTiles(tx))>> ELSE <<>>

\* RESEND: the fragments of the window that the peer's bitmap marks missing,
\* in their order; the last fragment of the packet is always among them.
RECURSIVE resend(_, _)
resend(tx, k) ==
    IF k >= tx.next THEN <<>>
    ELSE (IF k = NumTiles(tx) \/ TilePos(tx, k) \notin tx.ack_bitmap
          THEN <<Frag(tx, k)>> ELSE <<>>) \o resend(tx, k + 1)

\* The retry budget, mutated: one more attempt is allowed.
retry_budget_off_by_one(tx) == tx.attempts > MAX_ACK_REQUESTS

\* The retransmission timer ran out: MAX_ACK_REQUESTS attempts were made.
retry_budget_exceeded(tx) == tx.attempts + 1 > MAX_ACK_REQUESTS

(***************************************************************************)
(* The receiver.                                                           *)
(***************************************************************************)
NoRx == [state |-> "RECV_WINDOW", mode |-> "none", window |-> 0,
         bitmap |-> {}, done |-> <<>>, cur |-> <<>>,
         last |-> [present |-> FALSE, tile |-> <<>>, mic |-> 0]]

EmptyWindow(rule) == [p \in 1..WindowTiles(rule) |-> <<>>]

\* The connection schc_input allocates for the first fragment of a packet.
new_rx(f) == [NoRx EXCEPT !.mode = f.mode, !.cur = EmptyWindow(FragRule(f.mode))]

\* The reassembled buffer (get_mbuf_len and mbuf_copy): the bytes of the
\* completed windows, the tiles of the current window by position, and the
\* tile of the last fragment.
mbuf(rx) == rx.done \o Flatten(rx.cur) \o rx.last.tile

\* The MIC check, mutated: the MIC is not compared.
mic_unchecked(rx) == rx.last.present

mic_matches(rx) == rx.last.present /\ compute_mic(mbuf(rx)) = rx.last.mic

rx_ignore(rx) == [rx |-> rx, acks |-> <<>>, out |-> <<>>, res |-> 0]

\* Reassembly completed under an ack-bearing mode: the ACK is sent and the
\* engine calls end_rx.
rx_complete(rx, f) ==
    LET r == [rx EXCEPT !.state = "END_RX"] IN
    [rx |-> r, acks |-> <<Ack(f.w, r.bitmap, TRUE)>>, out |-> <<mbuf(r)>>,
     res |-> 1]

rx_no_ack(rx, f) ==
    IF f.fcn = All1(FragRule(f.mode))
    THEN LET r == [rx EXCEPT !.last = [present |-> TRUE, tile |-> f.tile,
                                       mic |-> f.mic]] IN
         IF mic_matches(r)
         THEN [rx |-> [r EXCEPT !.state = "END_RX"], acks |-> <<>>,
               out |-> <<>>, res |-> 1]
         ELSE [rx |-> [NoRx EXCEPT !.state = "ABORT", !.mode = f.mode],
               acks |-> <<>>, out |-> <<>>, res |-> 0]
    ELSE [rx |-> [rx EXCEPT !.done = @ \o f.tile], acks |-> <<>>,
          out |-> <<>>, res |-> 0]

rx_next_window(rx) ==
    [rx EXCEPT !.window = @ + 1, !.done = @ \o Flatten(rx.cur),
               !.cur = EmptyWindow(FragRule(rx.mode)), !.bitmap = {},
               !.state = "RECV_WINDOW"]

\* A tile is stored, mutated: at the next free place of the window, in the
\* order of arrival.
store_tile_on_arrival(rx, pos, tile) ==
    [rx EXCEPT !.bitmap = @ \cup {pos},
               !.cur[(Cardinality(rx.bitmap) % Len(rx.cur)) + 1] = tile]

\* A tile is stored: its FCN gives its bit in the bitmap of the window and
\* its place in the window.
store_tile(rx, pos, tile) ==
    [rx EXCEPT !.bitmap = @ \cup {pos}, !.cur[pos + 1] = tile]

\* The window test, mutated: the window bit is not looked at.
window_unchecked(rx, f) == FALSE

\* The window bit of the fragment is not that of the receiver's window.
other_window(rx, f) == f.w # rx.window % 2

rx_windowed(rx, f) ==
    LET rule == FragRule(f.mode)
        r0 == IF rx.state = "WAIT_NEXT_WINDOW" /\ other_window(rx, f)
              THEN rx_next_window(rx) ELSE rx
    IN
    IF r0.state = "WAIT_NEXT_WINDOW"
    THEN \* a fragment of the completed window: its ACK is sent again
         IF f.fcn = 0
         THEN [rx |-> r0, acks |-> <<Ack(f.w, r0.bitmap, FALSE)>>,
               out |-> <<>>, res |-> 0]
         ELSE rx_ignore(r0)
    ELSE IF other_window(r0, f) THEN rx_ignore(r0)
    ELSE IF f.fcn = All1(rule)
    THEN LET r1 == [r0 EXCEPT !.last = [present |-> TRUE, tile |-> f.tile,
                                        mic |-> f.mic]] IN
         IF mic_matches(r1) THEN rx_complete(r1, f)
         ELSE [rx |-> [r1 EXCEPT !.state = "WAIT_MISSING_FRAG"],
               acks |-> <<Ack(f.w, r1.bitmap, FALSE)>>, out |-> <<>>,
               res |-> 0]
    ELSE LET pos == rule.MAX_WND_FCN - f.fcn
             r1 == store_tile(r0, pos, f.tile)
         IN
         IF r1.last.present
         THEN (IF mic_matches(r1) THEN rx_complete(r1, f)
               ELSE [rx |-> r1, acks |-> <<>>, out |-> <<>>, res |-> 0])
         ELSE IF r1.bitmap = FullBitmap(rule)
         THEN [rx |-> [r1 EXCEPT !.state = "WAIT_NEXT_WINDOW"],
               acks |-> <<Ack(f.w, r1.bitmap, FALSE)>>, out |-> <<>>,
               res |-> 0]
         ELSE IF f.fcn = 0
         THEN [rx |-> [r1 EXCEPT !.state = "WAIT_MISSING_FRAG"],
               acks |-> <<Ack(f.w, r1.bitmap, FALSE)>>, out |-> <<>>,
               res |-> 0]
         ELSE [rx |-> r1, acks |-> <<>>, out |-> <<>>, res |-> 0]

\* schc_reassemble on the connection that holds fragment f: the connection
\* after it, the ACKs the engine sent, the buffers it handed to end_rx and
\* its return value: 0 (ONGOING), 1 (COMPLETED) or 2 (STAY_ALIVE).
schc_reassemble(rx, f) ==
    IF rx.state = "END_RX"
    THEN \* the last fragment again: the final ACK is sent again, and the
         \* connection stays open for the next request (STAY_ALIVE)
         IF f.mode \in AckModes /\ f.fcn = All1(FragRule(f.mode))
         THEN [rx |-> rx, acks |-> <<Ack(f.w, rx.bitmap, TRUE)>>,
               out |-> <<>>, res |-> 2]
         ELSE rx_ignore(rx)
    ELSE IF rx.state = "ABORT" THEN rx_ignore(rx)
    ELSE IF f.mode = "NO_ACK" THEN rx_no_ack(rx, f)
    ELSE rx_windowed(rx, f)

\* FragmentationConnection.reset of a connection that input() created.
reset(rx) == NoRx

\* FragmentationConnection.reassemble, mutated: the wrapper calls end_rx
\* after the last fragment under every mode.
reassemble_end_rx_any_mode(rx, f) ==
    LET e == schc_reassemble(rx, f) IN
    IF e.res # 0
    THEN [rx |-> IF e.rx.mode = "NO_ACK" THEN reset(e.rx) ELSE e.rx,
          acks |-> e.acks, out |-> e.out \o <<mbuf(e.rx)>>, res |-> e.res]
    ELSE e

\* FragmentationConnection.reassemble, mutated: the connection is reset
\* before end_rx looks at it.
reassemble_reset_first(rx, f) ==
    LET e == schc_reassemble(rx, f) IN
    IF e.res # 0 /\ e.rx.mode = "NO_ACK"
    THEN [rx |-> reset(e.rx), acks |-> e.acks,
          out |-> e.out \o <<mbuf(reset(e.rx))>>, res |-> e.res]
    ELSE e

\* FragmentationConnection.reassemble: after the last fragment under NO_ACK
\* the wrapper calls end_rx itself and resets the connection.  The ops of
\* the receiver have an end_rx callback (init_rx asserts it).
reassemble(rx, f) ==
    LET e == schc_reassemble(rx, f) IN
    IF e.res # 0 /\ e.rx.mode = "NO_ACK"
    THEN [rx |-> reset(e.rx), acks |-> e.acks,
          out |-> e.out \o <<mbuf(e.rx)>>, res |-> e.res]
    ELSE e

(***************************************************************************)
(* Actions of part 4.                                                      *)
(***************************************************************************)
InitFrag ==
    /\ ftx = NoTx
    /\ frx = NoRx
    /\ up = <<>>
    /\ down = <<>>
    /\ fh = [started |-> FALSE, raised |-> FALSE, reordered |-> FALSE,
             crossed |-> FALSE, ack_lost |-> FALSE, ack_delivered |-> FALSE,
             rounds |-> 0, out |-> <<>>, direct |-> <<>>,
             corrupted |-> FALSE, tainted |-> FALSE, nack |-> FALSE,
             end_tx |-> 0, completed |-> 0, mode |-> "none",
             late_ack |-> FALSE, early |-> FALSE, lost |-> FALSE,
             rebound |-> FALSE, crashed |-> FALSE, swallowed |-> FALSE,
             xfer |-> "none", untimely |-> FALSE]

\* The process runs: no call has ended it.
FragOnly ==
    /\ ~fh.crashed
    /\ UNCHANGED <<regVars, timerVars, compVars, bitVars, deployVars>>

\* init_tx(device, bit_arr, mtu, dc, mode), on a fresh connection or on one
\* that was initialised before: schc_fragmenter_init first, then the rule
\* lookup.  Without a rule of the mode the rule of the connection is NULL
\* and init_tx raises ValueError before it assigns the device, the array,
\* the MTU or the duty cycle.  Else the connection is bound to the array and
\* the MTU and waits, in INIT_TX, for fragment().  A connection carries one
\* transfer: once fragment() has started it, init_tx succeeds no more.
FragInitTx(mode, n, mtu) ==
    /\ LET rule == get_fragmentation_rule_by_reliability_mode(mode)
           init == schc_fragmenter_init(ftx)
       IN
       IF rule = 0
       THEN /\ ~fh.raised
            /\ ftx' = [init EXCEPT !.mode = "none"]
            /\ fh' = [fh EXCEPT !.started = TRUE, !.raised = TRUE,
                                !.mode = mode]
       ELSE /\ fh.xfer = "none"
            /\ ftx' = [init EXCEPT !.mode = FragRules[rule].mode,
                                   !.packet = FragPacket(n),
                                   !.tile = mtu - FragHeaderBytes,
                                   !.bit_arr = "set"]
            /\ fh' = [fh EXCEPT !.started = TRUE, !.raised = FALSE,
                                !.mode = mode]
    /\ UNCHANGED <<frx, up, down>>
    /\ FragOnly

\* fragment() in INIT_TX.  _fragment is a cdef function with a C return
\* type and no exception value: what is raised in it is written out and
\* dropped, and it returns 0.  On a connection without a rule schc_fragment
\* fails, the MemoryError is dropped and fragment() goes on with
\* FragmentationResult(0): nothing is sent and the connection is as it was.
\* With a rule, schc_fragment starts on the array conn.bit_arr points to at
\* the call: a packet that fits one fragment is sent as it is, without the
\* state machine (NO_FRAGMENTATION); with conn.bit_arr NULL the engine
\* reads through a null pointer, which ends the process.
FragFragment ==
    /\ ftx.state = "INIT_TX"
    /\ IF ftx.mode = "none"
       THEN /\ ~fh.swallowed
            /\ fh' = [fh EXCEPT !.swallowed = TRUE]
            /\ UNCHANGED <<ftx, up>>
       ELSE /\ fh.xfer = "none"
            /\ IF ftx.bit_arr = "NULL"
               THEN /\ fh' = [fh EXCEPT !.crashed = TRUE]
                    /\ UNCHANGED <<ftx, up>>
               ELSE IF Len(ftx.packet) <= ftx.tile
               THEN /\ up' = Append(up, [type |-> "whole",
                                         mode |-> "NOT_FRAGMENTED",
                                         data |-> ftx.packet])
                    /\ fh' = [fh EXCEPT !.xfer = "NOT_FRAGMENTED"]
                    /\ UNCHANGED ftx
               ELSE /\ ftx' = [ftx EXCEPT !.state = "SEND"]
                    /\ fh' = [fh EXCEPT !.xfer = ftx.mode]
                    /\ UNCHANGED up
    /\ UNCHANGED <<frx, down>>
    /\ FragOnly

\* The calls of end_tx (_c_end_tx, which hands the application the
\* connection and nothing else) in a step of the sender: the engine calls
\* it when the sender enters END_TX, and when the sender gives up and
\* enters ERR, which is "reported to the caller via the end callback".
end_tx_calls(old, new) ==
    IF old.state \notin {"END_TX", "ERR"} /\ new.state \in {"END_TX", "ERR"}
    THEN 1 ELSE 0

\* The bit_arr property of the sender's connection is assigned (__set__):
\* conn.bit_arr points to the new BitArray from now on.  Between init_tx and
\* fragment() the array is any other one.  Once fragment() has started the
\* engine on an array, the new array has the length of that one, and the
\* application touches the property once at most (rebound).
FragSetBitArr(packet) ==
    /\ fh.started /\ ~fh.raised
    /\ IF fh.xfer = "none"
       THEN /\ packet # ftx.packet \/ ftx.bit_arr = "NULL"
            /\ UNCHANGED fh
       ELSE /\ ~fh.rebound
            /\ Len(packet) = Len(ftx.packet)
            /\ fh' = [fh EXCEPT !.rebound = TRUE]
    /\ ftx' = [ftx EXCEPT !.packet = packet, !.bit_arr = "set"]
    /\ UNCHANGED <<frx, up, down>>
    /\ FragOnly

\* The bit_arr property of the sender's connection is deleted (__del__):
\* conn.bit_arr is NULL from now on.  What the engine has counted since
\* fragment() (the tiles of the packet) stays.
FragDelBitArr ==
    /\ fh.started /\ ~fh.raised
    /\ ftx.bit_arr # "NULL"
    /\ IF fh.xfer = "none"
       THEN UNCHANGED fh
       ELSE /\ ~fh.rebound
            /\ fh' = [fh EXCEPT !.rebound = TRUE]
    /\ ftx' = [ftx EXCEPT !.bit_arr = "NULL"]
    /\ UNCHANGED <<frx, up, down>>
    /\ FragOnly

\* The duty-cycle timer runs out in SEND: the next fragment is built from
\* conn.bit_arr and sent.  With conn.bit_arr NULL the engine reads through a
\* null pointer, which ends the process.
TxSendNext ==
    /\ ftx.state = "SEND"
    /\ IF ftx.bit_arr = "NULL"
       THEN /\ fh' = [fh EXCEPT !.crashed = TRUE]
            /\ UNCHANGED <<ftx, up>>
       ELSE /\ up' = Append(up, Frag(ftx, ftx.next))
            /\ ftx' = tx_sent(ftx, ftx.next)
            /\ fh' = [fh EXCEPT !.end_tx =
                          @ + end_tx_calls(ftx, tx_sent(ftx, ftx.next))]
    /\ UNCHANGED <<frx, down>>
    /\ FragOnly

\* Nothing is in flight.
Drained == up = <<>> /\ down = <<>>

\* The first tile of the window the sender is in.
WindowStart(tx) == tx.window * WindowTiles(FragRule(tx.mode)) + 1

\* What the expiry of the retransmission timer makes of a sender in
\* WAIT_BITMAP: within the retry budget it goes to RESEND, beyond it it
\* gives up (ERR).
tx_timeout(tx) ==
    IF retry_budget_exceeded(tx)
    THEN [tx EXCEPT !.state = "ERR"]
    ELSE [tx EXCEPT !.state = "RESEND", !.attempts = @ + 1]

\* The retransmission timer runs out in WAIT_BITMAP without a satisfactory
\* ACK.  The timer runs for duty_cycle ms, whatever is in flight: it ran out
\* early (untimely) when a fragment or an ACK was still in flight.
TxRetransTimeout ==
    /\ ftx.state = "WAIT_BITMAP"
    /\ ftx' = tx_timeout(ftx)
    /\ fh' = [fh EXCEPT !.untimely = @ \/ ~Drained,
                        !.end_tx = @ + end_tx_calls(ftx, tx_timeout(ftx))]
    /\ UNCHANGED <<frx, up, down>>
    /\ FragOnly

\* RESEND: the fragments the peer's bitmap marked missing are built from
\* conn.bit_arr and sent again, and the sender waits for the bitmap again.
\* With conn.bit_arr NULL the engine reads through a null pointer, which
\* ends the process.
TxResend ==
    /\ ftx.state = "RESEND"
    /\ IF ftx.bit_arr = "NULL" /\ resend(ftx, WindowStart(ftx)) # <<>>
       THEN /\ fh' = [fh EXCEPT !.crashed = TRUE]
            /\ UNCHANGED <<ftx, up>>
       ELSE /\ ftx' = [ftx EXCEPT !.state = "WAIT_BITMAP"]
            /\ up' = up \o resend(ftx, WindowStart(ftx))
            /\ fh' = [fh EXCEPT !.rounds = @ + 1]
    /\ UNCHANGED <<frx, down>>
    /\ FragOnly

\* Fragments f and g belong to the same window.  Under NO_ACK a window is
\* one fragment.
same_window(f, g) ==
    /\ f.type = "frag"
    /\ g.type = "frag"
    /\ f.mode \in AckModes
    /\ f.w = g.w

\* The byte a corrupted payload byte becomes: no byte of a packet.
CorruptByte == 9

is_corrupted(f) == \E k \in 1..Len(f.tile) : f.tile[k] = CorruptByte

\* One payload byte of the i-th fragment in flight is corrupted; this
\* happens to one fragment of a transfer at most.
Corrupt(i) ==
    /\ i \in 1..Len(up)
    /\ ~fh.corrupted
    /\ up[i].type = "frag"
    /\ up' = [up EXCEPT ![i].tile[1] = CorruptByte]
    /\ fh' = [fh EXCEPT !.corrupted = TRUE]
    /\ UNCHANGED <<ftx, frx, down>>
    /\ FragOnly

\* The receiver is handed the i-th datagram in flight: input() finds or
\* creates its connection and reassemble() handles it.  i > 1 overtakes the
\* datagrams sent before it.
RxInput(i) ==
    /\ i \in 1..Len(up)
    /\ LET f == up[i] IN
       /\ up' = SubSeq(up, 1, i - 1) \o SubSeq(up, i + 1, Len(up))
       /\ IF f.type = "whole"
          THEN /\ fh' = [fh EXCEPT !.direct = @ \o <<f.data>>]
               /\ UNCHANGED <<frx, down>>
          ELSE LET rx0 == IF frx.mode = "none" THEN new_rx(f) ELSE frx
                   r == reassemble(rx0, f)
               IN
               /\ frx' = r.rx
               /\ down' = down \o r.acks
               /\ fh' = [fh EXCEPT
                           !.out = @ \o r.out,
                           !.reordered = @ \/ i > 1,
                           !.crossed = @ \/ \E j \in 1..(i - 1) :
                                                ~same_window(up[j], f),
                           !.completed = @ + (IF r.res = 1 THEN 1 ELSE 0),
                           !.tainted = @ \/ (is_corrupted(f) /\ r.rx # rx0),
                           !.nack = @ \/ \E k \in 1..Len(r.acks) :
                                            /\ r.rx.last.present
                                            /\ ~r.acks[k].mic_ok]
    /\ UNCHANGED ftx
    /\ FragOnly

\* The sender is handed the oldest ACK in flight.
TxInput ==
    /\ down # <<>>
    /\ ftx' = tx_ack(ftx, Head(down))
    /\ down' = Tail(down)
    /\ fh' = [fh EXCEPT !.ack_delivered = TRUE,
                        !.end_tx = @ + end_tx_calls(ftx, tx_ack(ftx, Head(down)))]
    /\ UNCHANGED <<frx, up>>
    /\ FragOnly

\* The oldest ACK in flight is lost.
AckLost ==
    /\ down # <<>>
    /\ down' = Tail(down)
    /\ fh' = [fh EXCEPT !.ack_lost = TRUE]
    /\ UNCHANGED <<ftx, frx, up>>
    /\ FragOnly

\* The i-th datagram in flight, a fragment, is lost; this happens to one
\* fragment of a transfer at most.
FragLost(i) ==
    /\ i \in 1..Len(up)
    /\ ~fh.lost
    /\ up[i].type = "frag"
    /\ up' = SubSeq(up, 1, i - 1) \o SubSeq(up, i + 1, Len(up))
    /\ fh' = [fh EXCEPT !.lost = TRUE]
    /\ UNCHANGED <<ftx, frx, down>>
    /\ FragOnly

\* Fragment k arrives early: it belongs to the window after the one the
\* receiver is in, and that window is not complete (the receiver is not
\* waiting for the next window) and not abandoned.
EarlyCase(k) ==
    /\ ftx.mode \in AckModes
    /\ frx.mode = ftx.mode
    /\ frx.state \in {"RECV_WINDOW", "WAIT_MISSING_FRAG"}
    /\ k \in 1..NumTiles(ftx)
    /\ TileWindow(ftx, k) = frx.window + 1

\* The receiver is handed a fragment of the next window early.
RxEarly(k) ==
    /\ EarlyCase(k)
    /\ \E r \in {reassemble(frx, Frag(ftx, k))} :
           /\ frx' = r.rx
           /\ down' = down \o r.acks
           /\ fh' = [fh EXCEPT !.early = TRUE, !.out = @ \o r.out,
                               !.completed = @ + (IF r.res = 1 THEN 1 ELSE 0)]
    /\ UNCHANGED <<ftx, up>>
    /\ FragOnly

\* The ACKs a sender can be handed.
AckInputs ==
    {Ack(w, bitmap, ok) : w \in {0, 1}, bitmap \in SUBSET (0..2),
                          ok \in BOOLEAN}

\* An ACK reaches the sender late, after it has given up (the receiver
\* sends its ACK again when its own timer runs out).
TxLateAck(a) ==
    /\ ftx.state = "ERR"
    /\ ~fh.late_ack
    /\ ftx' = tx_ack(ftx, a)
    /\ fh' = [fh EXCEPT !.late_ack = TRUE,
                        !.end_tx = @ + end_tx_calls(ftx, tx_ack(ftx, a))]
    /\ UNCHANGED <<frx, up, down>>
    /\ FragOnly

\* The retransmission timer runs out, early in the first MaxUntimely rounds
\* of a window at most.
TxRetransTimeoutBounded ==
    /\ Drained \/ ftx.attempts < MaxUntimely
    /\ TxRetransTimeout

\* init_tx on a connection on which no transfer has begun.
FragInitFresh(mode, n, mtu) ==
    /\ fh.xfer = "none"
    /\ FragInitTx(mode, n, mtu)

\* The sender and its application.
FragSender ==
    \/ FragFragment
    \/ TxSendNext
    \/ TxResend
    \/ TxInput

\* A link that delivers in order and may lose ACKs; the application may
\* give the connection another array and may initialise it again.
NextFrag ==
    \/ \E mode \in Modes \cup {"NOT_FRAGMENTED"}, n \in 1..MaxLen,
          mtu \in MTUs : FragInitTx(mode, n, mtu)
    \/ FragSender
    \/ TxRetransTimeoutBounded
    \/ RxInput(1)
    \/ AckLost
    \/ \E n \in 1..MaxLen :
           \E packet \in {FragPacket(n), OtherPacket(n)} :
               FragSetBitArr(packet)
    \/ FragDelBitArr

\* A link that delivers in order and may lose ACKs, a timer that runs out
\* early any number of times, ACKs that reach a sender that has given up,
\* and an application that may initialise the connection again.
NextFragSender ==
    \/ \E mode \in Modes \cup {"NOT_FRAGMENTED"}, n \in 1..MaxLen,
          mtu \in MTUs : FragInitTx(mode, n, mtu)
    \/ FragSender
    \/ TxRetransTimeout
    \/ RxInput(1)
    \/ AckLost
    \/ \E a \in AckInputs : TxLateAck(a)

\* A link on which a datagram overtakes up to MaxOvertake - 1 of those
\* sent before it, whatever their windows, and which may lose ACKs.
NextFragShuffle ==
    \/ \E mode \in Modes \cup {"NOT_FRAGMENTED"}, n \in 1..MaxLen,
          mtu \in MTUs : FragInitFresh(mode, n, mtu)
    \/ FragSender
    \/ TxRetransTimeoutBounded
    \/ \E i \in 1..MaxOvertake : RxInput(i)
    \/ AckLost
    \/ \E k \in 1..MaxLen : RxEarly(k)

\* A link that delivers in order, may corrupt one fragment and may lose
\* ACKs, and a timer that runs out early any number of times.
NextFragCorrupt ==
    \/ \E mode \in Modes \cup {"NOT_FRAGMENTED"}, n \in 1..MaxLen,
          mtu \in MTUs : FragInitFresh(mode, n, mtu)
    \/ FragSender
    \/ TxRetransTimeout
    \/ RxInput(1)
    \/ AckLost
    \/ \E i \in 1..MaxLen : Corrupt(i)

(***************************************************************************)
(* Claims of part 4.                                                       *)
(***************************************************************************)
\* fragment() has started a transfer of a packet that does not fit one
\* fragment.
Fragmented == fh.xfer \in Modes

\* The sender has sent every fragment of the packet once at least.
AllSent == Fragmented /\ ftx.next > NumTiles(ftx)

\* The sender has sent every fragment, and every fragment in flight was
\* handed to the receiver.
AllHandedOver == AllSent /\ up = <<>>

\* C3: for each of NO_ACK, ACK_ON_ERROR and ACK_ALWAYS and every packet
\* size, when the fragments reach the reassembler in the order they were
\* sent (those sent again when a timer ran out early among them) and the
\* sender keeps the bit array it had when fragment() was called, every
\* buffer handed to end_rx equals the packet in that array (as does a packet
\* that was sent unfragmented), and once every fragment was sent and handed
\* over exactly one such buffer was handed to end_rx.
C3_FragmentReassembleRoundTrip ==
    ~fh.rebound =>
        /\ \A i \in 1..Len(fh.out) : fh.out[i] = ftx.packet
        /\ \A i \in 1..Len(fh.direct) : fh.direct[i] = ftx.packet
        /\ AllHandedOver => fh.out = <<ftx.packet>>

C3_NoAckWitness ==
    /\ fh.xfer = "NO_ACK"
    /\ ~fh.rebound
    /\ Len(ftx.packet) = MaxLen
    /\ ftx.tile = 2
    /\ AllHandedOver
    /\ fh.out = <<ftx.packet>>

C3_Witness ==
    /\ fh.xfer = "ACK_ALWAYS"
    /\ ~fh.rebound
    /\ fh.untimely
    /\ Len(ftx.packet) = MaxLen
    /\ ftx.tile = 1
    /\ ftx.window = 2
    /\ AllHandedOver /\ Drained
    /\ fh.out = <<ftx.packet>>

\* C3 witness: a packet of one byte, sent unfragmented, has reached the
\* receiver.
C3_OneByteWitness ==
    /\ fh.xfer = "NOT_FRAGMENTED"
    /\ Len(ftx.packet) = 1
    /\ fh.direct = <<ftx.packet>>

\* C4 (safety): under ACK_ALWAYS, as long as no ACK has reached the sender,
\* the sender has made at most MAX_ACK_REQUESTS retransmission rounds, and
\* it is in ERR only after exactly MAX_ACK_REQUESTS of them.
C4_RoundsBeforeErr ==
    (ftx.mode = "ACK_ALWAYS" /\ ~fh.ack_delivered) =>
        /\ fh.rounds <= MAX_ACK_REQUESTS
        /\ ftx.state = "ERR" => fh.rounds = MAX_ACK_REQUESTS

\* C4: under ACK_ALWAYS, when no ACK ever reaches the sender, the sender
\* reaches ERR after exactly MAX_ACK_REQUESTS retransmission rounds: it is
\* not in ERR after fewer rounds, it makes no round after that one, and it
\* does reach ERR.
C4_ErrAfterMaxAckRequests ==
    /\ [](C4_RoundsBeforeErr)
    /\ (ftx.mode = "ACK_ALWAYS" /\ ftx.state = "SEND")
           ~> (fh.ack_delivered \/ ftx.state = "ERR")

C4_Witness ==
    /\ ftx.mode = "ACK_ALWAYS"
    /\ ~fh.ack_delivered
    /\ ftx.state = "ERR"
    /\ fh.rounds = MAX_ACK_REQUESTS
    /\ fh.ack_lost

\* C4 witness: the sender is in RESEND, before its last round.
C4_ResendWitness ==
    /\ ftx.mode = "ACK_ALWAYS"
    /\ ~fh.ack_delivered
    /\ ftx.state = "RESEND"
    /\ ftx.attempts = MAX_ACK_REQUESTS
    /\ fh.rounds = MAX_ACK_REQUESTS - 1

\* The positions of the regular fragments of the last window of the packet.
LastWindowBitmap ==
    {TilePos(ftx, k) : k \in {j \in 1..(NumTiles(ftx) - 1) :
                                 TileWindow(ftx, j) = TileWindow(ftx, NumTiles(ftx))}}

\* C10: when the fragments of a window reach the reassembler in any order
\* (no fragment overtakes a fragment of another window), the bitmap of a
\* completed window and the buffer handed to end_rx are those of in-order
\* delivery: the full bitmap, after the last window the bitmap of its
\* fragments, and the packet; and, as in order, once every fragment was sent
\* and handed over, reassembly has completed with the packet.
C10_OrderWithinWindow ==
    ~fh.crossed =>
        /\ frx.state = "WAIT_NEXT_WINDOW" =>
               frx.bitmap = FullBitmap(FragRule(frx.mode))
        /\ frx.state = "END_RX" => frx.bitmap = LastWindowBitmap
        /\ \A i \in 1..Len(fh.out) : fh.out[i] = ftx.packet
        /\ AllHandedOver => fh.out = <<ftx.packet>>

C10_Witness ==
    /\ fh.reordered
    /\ ~fh.crossed
    /\ fh.xfer = "ACK_ALWAYS"
    /\ ftx.window = 2
    /\ frx.state = "END_RX"
    /\ AllHandedOver
    /\ fh.out = <<ftx.packet>>

\* The reassembly buffer of the receiver holds a corrupted byte.
Tainted == \E k \in 1..Len(mbuf(frx)) : mbuf(frx)[k] = CorruptByte

C11_NackWitness ==
    /\ fh.xfer = "ACK_ON_ERROR"
    /\ Tainted
    /\ frx.last.present
    /\ frx.state = "WAIT_MISSING_FRAG"
    /\ fh.nack

\* The sender has ended the transfer: transmission has fully completed
\* (END_TX), or the sender has given up (ERR).
TxEnded == ftx.state \in {"END_TX", "ERR"}

EndTxStep ==
    fh'.end_tx # fh.end_tx =>
        /\ fh'.end_tx = fh.end_tx + 1
        /\ ~TxEnded
        /\ \/ /\ ftx'.state = "END_TX"
              /\ ftx'.next = NumTiles(ftx) + 1
              /\ ftx.mode \in AckModes =>
                     /\ down # <<>> /\ Head(down).mic_ok
                     /\ ftx.window = TileWindow(ftx, NumTiles(ftx))
           \/ /\ ftx'.state = "ERR"
              /\ ftx.state = "WAIT_BITMAP"
              /\ ftx.attempts = MAX_ACK_REQUESTS

\* The step in which end_rx is called is the step in which reassemble
\* returns COMPLETED: it takes the receiver to END_RX, or, under NO_ACK,
\* where the wrapper resets the connection after the call, to a connection
\* that is free again.
EndRxStep ==
    fh'.out # fh.out =>
        /\ Len(fh'.out) = Len(fh.out) + 1
        /\ fh'.completed = fh.completed + 1
        /\ frx.state \notin {"END_RX", "ABORT"}
        /\ frx'.state = "END_RX" \/ frx' = NoRx

C12_NoAckWitness ==
    /\ fh.xfer = "NO_ACK"
    /\ ftx.state = "END_TX"
    /\ Drained
    /\ fh.end_tx = 1
    /\ Len(fh.out) = 1

\* C12 witness: a reassembly was discarded and the sender has sent every
\* fragment; end_rx was not called.
C12_DiscardWitness ==
    /\ frx.state = "ABORT"
    /\ AllHandedOver
    /\ fh.end_tx = 1
    /\ fh.out = <<>>

\* C12 witness: a sender has given up after its retransmission rounds;
\* end_tx was called once.
C12_ErrWitness ==
    /\ ftx.state = "ERR"
    /\ fh.rounds = MAX_ACK_REQUESTS
    /\ fh.end_tx = 1

\* The step puts no datagram in flight to the receiver: what is in flight
\* after it was in flight before it.
NothingSent ==
    \/ up' = up
    \/ \E i \in 1..Len(up) :
           up' = SubSeq(up, 1, i - 1) \o SubSeq(up, i + 1, Len(up))

\* The step is a call of init_tx that raises.
InitTxRaises == fh'.raised /\ ~fh.raised

\* ERR is absorbing: in ERR no step but a new initialisation changes the
\* sender or puts a fragment in flight, and no ACK the sender could be
\* handed changes it.
ErrAbsorbing ==
    ftx.state = "ERR" =>
        /\ ftx' = ftx \/ InitTxRaises
        /\ NothingSent
        /\ \A a \in AckInputs : tx_ack(ftx, a) = ftx

\* The moves along INIT_TX -> SEND -> (RESEND | WAIT_BITMAP) -> END_TX.
ChainMoves ==
    {<<"INIT_TX", "SEND">>, <<"SEND", "RESEND">>, <<"SEND", "WAIT_BITMAP">>,
     <<"RESEND", "END_TX">>, <<"WAIT_BITMAP", "END_TX">>}

\* The moves of a sender that sends window by window: after the last
\* fragment of a window it waits for the bitmap; when the timer runs out it
\* goes to RESEND, retransmits and waits again; a satisfactory ACK takes it
\* from WAIT_BITMAP or RESEND to SEND for the next window or to END_TX after
\* the last; under NO_ACK END_TX follows the last fragment without a wait.
WindowMoves ==
    {<<"INIT_TX", "SEND">>, <<"SEND", "WAIT_BITMAP">>,
     <<"WAIT_BITMAP", "RESEND">>, <<"RESEND", "WAIT_BITMAP">>,
     <<"WAIT_BITMAP", "SEND">>, <<"RESEND", "SEND">>,
     <<"WAIT_BITMAP", "END_TX">>, <<"RESEND", "END_TX">>,
     <<"SEND", "END_TX">>}

\* A step of the engine in which the TX state changes: every change but that
\* of a new initialisation.
TxMove == ftx'.state # ftx.state /\ ~InitTxRaises

C27_ResendWitness ==
    /\ ftx.state = "SEND"
    /\ ftx.window > 0
    /\ fh.rounds = 0
    /\ fh.untimely

\* C27 witness: a sender that had given up was initialised again.
C27_InitWitness ==
    /\ ftx.state = "INIT_TX"
    /\ fh.raised
    /\ fh.late_ack

\* C28: under NO_ACK the sender is never in WAIT_BITMAP or RESEND; every
\* send step puts the next fragment in flight, and the step that sends the
\* last one, with the all-1 FCN and the MIC of the packet, is the step into
\* END_TX; and, its duty-cycle timer always running out in the end, a
\* sender in SEND reaches END_TX with every fragment sent and end_tx called
\* once, whether or not anything comes back from the receiver.
C28_NoAckSendsThrough ==
    /\ [](ftx.mode = "NO_ACK" => ftx.state \notin {"WAIT_BITMAP", "RESEND"})
    /\ [][(ftx.mode = "NO_ACK" /\ ftx'.next # ftx.next) =>
             /\ ftx'.next = ftx.next + 1
             /\ up' = Append(up, Frag(ftx, ftx.next))
             /\ ftx'.state = "END_TX" <=>
                    /\ ftx.next = NumTiles(ftx)
                    /\ up'[Len(up')].fcn = All1(FragRule("NO_ACK"))
                    /\ up'[Len(up')].mic = compute_mic(ftx.packet)]_vars
    /\ (ftx.mode = "NO_ACK" /\ ftx.state = "SEND")
           ~> /\ ftx.state = "END_TX"
              /\ ftx.next = NumTiles(ftx) + 1
              /\ fh.end_tx = 1

\* C28 witness: a NO_ACK sender has sent a packet of at least three
\* fragments and is in END_TX, end_tx was called, and the receiver has not
\* been handed the last fragment yet.
C28_Witness ==
    /\ ftx.mode = "NO_ACK" /\ ftx.state = "END_TX"
    /\ NumTiles(ftx) >= 3
    /\ ftx.next = NumTiles(ftx) + 1
    /\ fh.end_tx = 1
    /\ up # <<>> /\ up[Len(up)].fcn = All1(FragRule("NO_ACK"))

\* C28 witness: under an ack-bearing mode the sender is in RESEND.
C28_ResendWitness == ftx.mode = "ACK_ON_ERROR" /\ ftx.state = "RESEND"

\* The i-th datagram in flight is a regular fragment of the window the
\* receiver is in, and the step hands it to the receiver.
HandedInWindow(i) ==
    /\ i \in 1..Len(up)
    /\ up' = SubSeq(up, 1, i - 1) \o SubSeq(up, i + 1, Len(up))
    /\ up[i].type = "frag"
    /\ up[i].mode \in AckModes
    /\ frx.mode = up[i].mode
    /\ frx.state \in {"RECV_WINDOW", "WAIT_MISSING_FRAG"}
    /\ up[i].w = frx.window % 2
    /\ up[i].fcn # All1(FragRule(up[i].mode))

\* C29: a fragment of window N+1 that arrives while the receiver is in
\* window N, and window N is neither complete nor abandoned, is not applied:
\* the bitmap, the tiles of the window, the bytes of the completed windows
\* and the state stay as they are, no ACK is sent and nothing is handed to
\* end_rx; whereas a regular fragment of window N is applied at the place
\* its FCN gives, whichever fragments of the window arrived before it and
\* whichever datagrams it overtook.
C29_WindowsInSequence ==
    /\ [](\A k \in 1..MaxLen :
             EarlyCase(k) =>
                 reassemble(frx, Frag(ftx, k)) = rx_ignore(frx))
    /\ [][\A i \in 1..MaxLen :
             HandedInWindow(i) =>
                 LET pos == FragRule(up[i].mode).MAX_WND_FCN - up[i].fcn IN
                 /\ frx'.window = frx.window
                 /\ frx'.bitmap = frx.bitmap \cup {pos}
                 /\ frx'.cur[pos + 1] = up[i].tile
                 /\ \A q \in frx.bitmap \ {pos} :
                        frx'.cur[q + 1] = frx.cur[q + 1]]_vars

\* C29 witness: the receiver was handed a fragment of the next window while
\* a fragment of its window was missing, after a fragment of its window had
\* overtaken another; its window has not changed.
C29_Witness ==
    /\ fh.early /\ fh.reordered
    /\ frx.state \in {"RECV_WINDOW", "WAIT_MISSING_FRAG"}
    /\ frx.bitmap # {} /\ frx.bitmap # FullBitmap(FragRule(frx.mode))
    /\ frx.window = 0

\* The transfer is complete: the sender is in END_TX, end_tx was called once
\* and the packet, whole and once, was handed to end_rx.
TransferComplete ==
    /\ ftx.state = "END_TX"
    /\ fh.end_tx = 1
    /\ fh.out = <<ftx.packet>>

NoRuleOf(mode) == \A i \in 1..Len(FragRules) : FragRules[i].mode # mode

C30_BoundWitness ==
    /\ fh.raised
    /\ fh.xfer \in Modes
    /\ fh.swallowed
    /\ ftx.bit_arr = "set"
    /\ ftx.packet # <<>>

(***************************************************************************)
(* Part 5: the BitArray (libschc.pyx, class BitArray).                     *)
(*                                                                         *)
(* The constructor, the buffer property and the argument checks of         *)
(* get_bits and copy_bits are those of libschc.pyx.  The bit operations of *)
(* the engine (bit_operations.c: get_bits, clear_bits, copy_bits) are      *)
(* modelled from the specification, section 4.1, with the argument types   *)
(* of their declarations (clibschc.pxd).                                   *)
(*                                                                         *)
(* A Python integer that may not fit 32 bits (a position, a value read) is *)
(* a pair <<hi, lo>> of value hi * 2^16 + lo with 0 <= lo < 2^16; hi is    *)
(* negative for a negative integer and 2^16 or more for an integer of      *)
(* 2^32 or more.                                                           *)
(***************************************************************************)
MaxOps == 2

MaxSize == 2

U16 == 2 ^ 16

Small(p) == <<0, p>>

\* Conversion of a Python integer to uint32_t: OverflowError out of range.
fits_uint32(p) == p[1] >= 0 /\ p[1] < U16

\* <uint32_t>pos + <uint8_t>length in C: unsigned 32-bit addition.
uint32_add(p, l) ==
    << (p[1] + ((p[2] + l) \div U16)) % U16, (p[2] + l) % U16 >>

\* a > n for an unsigned 32-bit a and n below 2^16.
uint32_gt(a, n) == a[1] > 0 \/ a[2] > n

\* pos + length > n over the integers, for pos >= 0 and 0 <= length < 2^15.
exceeds(p, l, n) == p[1] > 0 \/ p[2] + l > n

\* The integer of at most 32 bits, most significant bit first.
WideOfBits(b) ==
    IF Len(b) <= 16 THEN <<0, BitsToInt(b)>>
    ELSE << BitsToInt(SubSeq(b, 1, Len(b) - 16)),
            BitsToInt(SubSeq(b, Len(b) - 15, Len(b))) >>

\* The n-bit representation of an integer below 2^32.
WideToBits(w, n) ==
    IF n <= 16 THEN IntToBits(w[2], n)
    ELSE IntToBits(w[1], n - 16) \o IntToBits(w[2], 16)

\* The bytes that carry the n bits of an integer first, zero bits after.
bits_as_bytes(w, n) ==
    BitsToBytes(PadBits(WideToBits(w, n), 8 * BITS_TO_BYTES(n)))

(***************************************************************************)
(* The engine's bit operations on an array A of bits, in range.            *)
(***************************************************************************)
\* The mutation of get_bits: least significant bit first.
get_bits_lsb_first(A, pos, len) ==
    WideOfBits([i \in 1..len |-> A[pos + len + 1 - i]])

\* get_bits: len bits from pos as an integer, most significant bit first.
get_bits(A, pos, len) == WideOfBits([i \in 1..len |-> A[pos + i]])

\* clear_bits: len bits from pos are set to 0.
clear_bits(A, pos, len) ==
    [i \in 1..Len(A) |-> IF i > pos /\ i <= pos + len THEN 0 ELSE A[i]]

\* copy_bits: the bits of SRC from src_pos that are 1 are set in DST from
\* dst_pos.  Bits past the end of SRC are not the caller's: garbage.
copy_bits(DST, dst_pos, SRC, src_pos, len, garbage) ==
    [i \in 1..Len(DST) |->
        IF i > dst_pos /\ i <= dst_pos + len
        THEN LET k == src_pos + i - dst_pos IN
             IF (IF k <= Len(SRC) THEN SRC[k] ELSE garbage) = 1 THEN 1
             ELSE DST[i]
        ELSE DST[i]]

(***************************************************************************)
(* The methods of BitArray.                                                *)
(***************************************************************************)
\* buffer.__set__ copies into the memory the array has: the buffer is not
\* longer than size (no new allocation) and longer than that memory.  size
\* is a public attribute; the memory is as long as size says until size is
\* assigned.
buffer_set_overflows(b, buffer) ==
    /\ Len(buffer) # 0
    /\ Len(buffer) <= b.size
    /\ 8 * Len(buffer) > Len(b.bits)

\* buffer.__set__: a buffer longer than size gets new memory of its length,
\* an empty one frees the memory, any other is copied to the front of the
\* memory.
buffer_set(b, buffer) ==
    LET size == IF Len(buffer) > b.size THEN Len(buffer)
                ELSE IF Len(buffer) = 0 THEN 0 ELSE b.size
    IN [size |-> size,
        bits |-> IF size = 0 THEN <<>>
                 ELSE IF Len(buffer) > b.size THEN BytesToBits(buffer)
                 ELSE BytesToBits(buffer)
                          \o SubSeq(b.bits, 8 * Len(buffer) + 1,
                                    Len(b.bits)),
        offset |-> b.offset,
        padding |-> b.padding,
        len |-> Len(buffer) % 65536,
        bit_len |-> Len(buffer) * 8]

\* buffer.__del__ zeroes size bytes: more than the memory the array has.
buffer_del_overflows(b) == 8 * b.size > Len(b.bits)

\* buffer.__del__: the first size bytes of the memory are zeroed.
buffer_del(b) ==
    [size |-> b.size,
     bits |-> [i \in 1..Len(b.bits) |->
                  IF i <= 8 * b.size THEN 0 ELSE b.bits[i]],
     offset |-> 0, padding |-> 0, len |-> 0, bit_len |-> 0]

\* bit_array.size = n: the attribute alone changes.
size_set(b, n) == [b EXCEPT !.size = n]

\* The bits from pos on lie in the memory of the bit array: its allocation
\* and, after compress wrote past it, the bytes that landed behind it.
in_memory(b, pos, length) ==
    ~exceeds(pos, length, Len(b.bits))

\* BitArray.get_bits(pos, length): the checks, then the engine's get_bits.
\* "undefined" is a call of the engine on bits outside that memory.
BitArray_get_bits(b, pos, length) ==
    IF length < 0 \/ length > 32
    THEN [result |-> "ValueError", value |-> <<0, 0>>]
    ELSE IF pos[1] < 0 THEN [result |-> "ValueError", value |-> <<0, 0>>]
    ELSE IF ~fits_uint32(pos)
    THEN [result |-> "OverflowError", value |-> <<0, 0>>]
    ELSE IF uint32_gt(uint32_add(pos, length), b.bit_len)
    THEN [result |-> "ValueError", value |-> <<0, 0>>]
    ELSE IF ~in_memory(b, pos, length)
    THEN [result |-> "undefined", value |-> <<0, 0>>]
    ELSE [result |-> "ok", value |-> get_bits(b.bits, pos[2], length)]

\* The mutation of BitArray_copy_bits: the range is not cleared first.
BitArray_copy_bits_or(b, pos, data, length, garbage) ==
    IF length < 0 THEN [result |-> "ValueError", b |-> b]
    ELSE IF pos[1] < 0 THEN [result |-> "ValueError", b |-> b]
    ELSE IF ~fits_uint32(pos) \/ length > 255
    THEN [result |-> "OverflowError", b |-> b]
    ELSE IF uint32_gt(uint32_add(pos, length), b.bit_len)
    THEN [result |-> "ValueError", b |-> b]
    ELSE IF ~in_memory(b, pos, length)
    THEN [result |-> "undefined", b |-> b]
    ELSE [result |-> "ok",
          b |-> [b EXCEPT !.bits =
                     copy_bits(b.bits, pos[2], BytesToBits(data), 0, length,
                               garbage)]]

\* BitArray.copy_bits(pos, data, length): the checks, then the engine's
\* clear_bits and copy_bits.  length is converted to uint8_t.
BitArray_copy_bits(b, pos, data, length, garbage) ==
    IF length < 0 THEN [result |-> "ValueError", b |-> b]
    ELSE IF pos[1] < 0 THEN [result |-> "ValueError", b |-> b]
    ELSE IF ~fits_uint32(pos) \/ length > 255
    THEN [result |-> "OverflowError", b |-> b]
    ELSE IF uint32_gt(uint32_add(pos, length), b.bit_len)
    THEN [result |-> "ValueError", b |-> b]
    ELSE IF ~in_memory(b, pos, length)
    THEN [result |-> "undefined", b |-> b]
    ELSE [result |-> "ok",
          b |-> [b EXCEPT !.bits =
                     copy_bits(clear_bits(b.bits, pos[2], length), pos[2],
                               BytesToBits(data), 0, length, garbage)]]

(***************************************************************************)
(* Inputs.                                                                 *)
(***************************************************************************)
\* A buffer of 32 bytes, for reads of 32 bits and writes of 256.
LongBytes == [k \in 1..32 |-> (37 * k + 16) % 256]

AllOnes == [k \in 1..32 |-> 255]

BufferInputs == { <<>>, <<165>>, <<165, 60>>, LongBytes }

SizeInputs == 0..MaxSize

\* The values the size attribute is assigned: 0, and more bytes than any
\* buffer of BufferInputs has.
SizeAssigned == {0, 33}

\* Positions: 0, 3, -1, 2^32 - 1 and 2^32.
PosInputs ==
    { Small(0), Small(3), <<-1, 65535>>, <<65535, 65535>>, <<65536, 0>> }

GetLengths == {-1, 0, 5, 32, 33}

CopyLengths == {-1, 5, 11, 256}

DataInputs == { <<90>>, AllOnes }

\* The bit arrays compress fills: a rule ID of 4 bits, one of 8 bits and one
\* of 12 bits in a buffer sized for 8.
deployed(d) ==
    [configured |-> TRUE, py_rules |-> d.rules,
     compression_context |-> compression_context(d.rules, 0),
     compression_rule_count |-> Len(d.rules),
     uncomp_rule_id |-> d.uncomp_rule_id,
     uncomp_rule_id_size_bits |-> d.uncomp_rule_id_size_bits]

FillDevices ==
    { PyDevice(<< PyRule(1, 4, Ip6Exact, UdpMapElided, CoapSent) >>, 5, 4),
      PyDevice(<< PyRule(3, 12, Ip6Sent, UdpSent, CoapSent) >>, 20, 8) }

FillPackets ==
    { MkPacket(1, 0, compute_length(Payload(n), 4), 10,
               compute_checksum(Payload(n), 4), 0, 1, 5, Payload(n)) :
          n \in 0..1 }

(***************************************************************************)
(* Actions.                                                                *)
(***************************************************************************)
NoBitArray == [size |-> 0, bits |-> <<>>, offset |-> 0, padding |-> 0,
               len |-> 0, bit_len |-> 0]

NoCall == [op |-> "none", pos |-> <<0, 0>>, length |-> 0, data |-> <<>>,
           result |-> "none", value |-> <<0, 0>>]

InitBits ==
    /\ ba = NoBitArray
    /\ bh = [phase |-> "none", ops |-> 0, filled |-> FALSE,
             sized |-> FALSE, before |-> NoBitArray, call |-> NoCall]

BitsOnly ==
    UNCHANGED <<regVars, timerVars, compVars, fragVars, deployVars>>

Constructed(op, b) ==
    /\ bh.phase = "none"
    /\ ba' = b
    /\ bh' = [bh EXCEPT !.phase = "live", !.before = b,
                        !.call = [NoCall EXCEPT !.op = op, !.result = "ok"]]
    /\ BitsOnly

\* BitArray(n) for bytes.
BaNewBytes(n) == Constructed("cinit_bytes", cinit_bytes(n))

\* BitArray(n) for an integer.
BaNewInt(n) == Constructed("cinit_int", cinit_int(n))

\* The BitArray compress returns.  A write past the allocation is
\* undefined: the process dies, or the bytes land behind the allocation and
\* stay, or they are lost.
BaCompress(d, data, dir) ==
    /\ bh.phase = "none"
    /\ \E dev \in {deployed(d)} : \E r \in {compress(data, dev, dir)} :
       LET n == IF r.bit_array.len > r.bit_array.size THEN r.bit_array.len
                ELSE r.bit_array.size
           stay == [r.bit_array EXCEPT
                        !.bits = ReadBits(r.bit_array.bits, 0, 8 * n)]
           lost == [r.bit_array EXCEPT
                        !.bits = PadBits(ReadBits(r.bit_array.bits, 0,
                                                  8 * r.bit_array.size),
                                         8 * n)]
       IN /\ r.result # "ValueError"
          /\ \/ \E b \in (IF r.overflow THEN {stay, lost} ELSE {stay}) :
                    /\ ba' = b
                    /\ bh' = [bh EXCEPT !.phase = "live", !.filled = TRUE,
                                  !.before = b,
                                  !.call = [NoCall EXCEPT !.op = "compress",
                                                          !.result = "ok"]]
             \/ /\ r.overflow
                /\ ba' = ba
                /\ bh' = [bh EXCEPT !.phase = "crashed",
                              !.call = [NoCall EXCEPT !.op = "compress",
                                                      !.result = "crashed"]]
    /\ BitsOnly

\* A call on the BitArray returned or raised; b is the BitArray after it.
Called(call, b) ==
    /\ ba' = b
    /\ bh' = [bh EXCEPT !.ops = @ + 1, !.before = ba, !.call = call]
    /\ BitsOnly

\* The process died in a call, of an access outside its memory.
Crashed(call) ==
    /\ ba' = ba
    /\ bh' = [bh EXCEPT !.phase = "crashed", !.ops = @ + 1, !.before = ba,
                        !.call = [call EXCEPT !.result = "crashed"]]
    /\ BitsOnly

Callable == bh.phase = "live" /\ bh.ops < MaxOps

\* bit_array.size = n
BaSetSize(n) ==
    /\ Callable
    /\ ba' = size_set(ba, n)
    /\ bh' = [bh EXCEPT !.ops = @ + 1, !.before = ba, !.sized = TRUE,
                        !.call = [NoCall EXCEPT !.op = "size_set",
                                                !.length = n,
                                                !.result = "ok"]]
    /\ BitsOnly

\* bit_array.buffer = buffer.  A copy past the memory of the array is
\* undefined: the process dies (it does when there is no memory at all, the
\* pointer being NULL), or the bytes land behind the memory and stay, or
\* they are lost.
BaSetBuffer(buffer) ==
    /\ Callable
    /\ LET call == [NoCall EXCEPT !.op = "buffer_set", !.data = buffer,
                                  !.result = "ok"]
           meta == [ba EXCEPT !.len = Len(buffer) % 65536,
                              !.bit_len = Len(buffer) * 8]
       IN IF buffer_set_overflows(ba, buffer)
          THEN \/ Crashed(call)
               \/ /\ ba.bits # <<>>
                  /\ \E bits \in {BytesToBits(buffer),
                                   PadBits(ReadBits(BytesToBits(buffer), 0,
                                                    Len(ba.bits)),
                                           8 * Len(buffer))} :
                         Called(call, [meta EXCEPT !.bits = bits])
          ELSE Called(call, buffer_set(ba, buffer))

\* del bit_array.buffer.  Zeroing past the memory of the array is
\* undefined, as the copy of BaSetBuffer is.
BaDelBuffer ==
    /\ Callable
    /\ LET call == [NoCall EXCEPT !.op = "buffer_del", !.result = "ok"]
       IN IF buffer_del_overflows(ba)
          THEN \/ Crashed(call)
               \/ /\ ba.bits # <<>>
                  /\ \E n \in {8 * ba.size, Len(ba.bits)} :
                         Called(call, [buffer_del(ba) EXCEPT
                                          !.bits = [i \in 1..n |-> 0]])
          ELSE Called(call, buffer_del(ba))

\* bit_array.get_bits(pos, length).  A read outside its memory is
\* undefined: the process dies, or some value comes back.
BaGetBits(pos, length) ==
    /\ Callable
    /\ LET r == BitArray_get_bits(ba, pos, length)
           call == [NoCall EXCEPT !.op = "get_bits", !.pos = pos,
                                  !.length = length, !.result = r.result,
                                  !.value = r.value]
       IN IF r.result = "undefined"
          THEN \/ Crashed(call)
               \/ \E v \in {<<0, 0>>, <<0, 1>>} :
                      Called([call EXCEPT !.result = "ok", !.value = v], ba)
          ELSE Called(call, ba)

\* bit_array.copy_bits(pos, data, length).  A write outside its memory
\* is undefined: the process dies, or the bits land elsewhere.
BaCopyBits(pos, data, length, garbage) ==
    /\ Callable
    /\ LET r == BitArray_copy_bits(ba, pos, data, length, garbage)
           call == [NoCall EXCEPT !.op = "copy_bits", !.pos = pos,
                                  !.length = length, !.data = data,
                                  !.result = r.result]
       IN IF r.result = "undefined"
          THEN \/ Crashed(call)
               \/ Called([call EXCEPT !.result = "ok"], ba)
          ELSE Called(call, r.b)

\* bit_array.copy_bits(pos, bytes of bit_array.get_bits(pos, length),
\* length): the bits just read are written back.  The call recorded is the
\* one that ended the step.
BaWriteBack(pos, length) ==
    /\ Callable
    /\ LET g == BitArray_get_bits(ba, pos, length)
           call == [NoCall EXCEPT !.op = "write_back", !.pos = pos,
                                  !.length = length, !.result = g.result,
                                  !.value = g.value]
       IN IF g.result \notin {"ok", "undefined"} THEN Called(call, ba)
          ELSE \/ g.result = "undefined" /\ Crashed(call)
               \/ \E v \in (IF g.result = "undefined"
                             THEN {<<0, 0>>, <<0, 1>>} ELSE {g.value}) :
                      LET data == bits_as_bytes(v, length)
                          c == BitArray_copy_bits(ba, pos, data, length, 0)
                          done == [call EXCEPT !.value = v, !.data = data,
                                               !.result = c.result]
                      IN IF c.result = "undefined"
                         THEN \/ Crashed(done)
                              \/ Called([done EXCEPT !.result = "ok"], ba)
                         ELSE Called(done, c.b)

NextBits ==
    \/ \E n \in BufferInputs : BaNewBytes(n)
    \/ \E n \in SizeInputs : BaNewInt(n)
    \/ \E d \in FillDevices, data \in FillPackets, dir \in {UP, DOWN} :
           BaCompress(d, data, dir)
    \/ \E n \in SizeAssigned : BaSetSize(n)
    \/ \E buffer \in BufferInputs : BaSetBuffer(buffer)
    \/ BaDelBuffer
    \/ \E pos \in PosInputs, length \in GetLengths : BaGetBits(pos, length)
    \/ \E pos \in PosInputs, data \in DataInputs, length \in CopyLengths :
           \E garbage \in (IF 8 * Len(data) < length THEN {0, 1} ELSE {0}) :
               BaCopyBits(pos, data, length, garbage)
    \/ \E pos \in PosInputs, length \in GetLengths : BaWriteBack(pos, length)

(***************************************************************************)
(* Claims about the BitArray.                                              *)
(***************************************************************************)
BitCall == bh.call.op \in {"get_bits", "copy_bits"}

\* The call had pos >= 0 and length >= 0 (at most 32 for get_bits).
ArgsInDomain ==
    /\ bh.call.pos[1] >= 0
    /\ bh.call.length >= 0
    /\ bh.call.op = "get_bits" => bh.call.length <= 32

\* pos + length exceeded bit_length when the call was made.
PastEnd == exceeds(bh.call.pos, bh.call.length, bh.before.bit_len)

Metadata(b) == <<b.offset, b.padding, b.len, b.bit_len, b.size>>

\* C15 as stated: get_bits and copy_bits raise ValueError and leave the
\* buffer unchanged whenever pos + length exceeds bit_length, for every
\* pos >= 0 and every length >= 0.
C15_PastEndRaisesValueError ==
    (BitCall /\ ArgsInDomain /\ PastEnd) =>
        (bh.call.result = "ValueError" /\ ba = bh.before)

\* It holds as long as pos + length is below 2^32 and length below 256.
C15_HoldsWithoutWrap ==
    (/\ BitCall /\ ArgsInDomain /\ PastEnd
     /\ bh.call.pos[1] < U16 - 1
     /\ bh.call.length <= 255) =>
        (bh.call.result = "ValueError" /\ ba = bh.before)

C15_WrapReached ==
    /\ bh.call.op = "get_bits"
    /\ bh.call.pos = <<65535, 65535>>
    /\ bh.call.length = 5
    /\ bh.before.bit_len = 16
    /\ bh.call.result = "ok"

\* C16: copy_bits(pos, data, len) with the len bits get_bits(pos, len)
\* returned as data, for len <= 32 and pos + len <= bit_length, leaves the
\* bytes of the buffer and offset, padding, length and bit_length unchanged.
C16_WriteBackUnchanged ==
    (bh.call.op = "write_back" /\ ArgsInDomain /\ bh.call.length <= 32
         /\ ~PastEnd) =>
        (bh.call.result = "ok" /\ ba = bh.before)

C16_Witness ==
    /\ bh.call.op = "write_back"
    /\ bh.call.pos = Small(3)
    /\ bh.call.length = 32
    /\ bh.call.value[1] >= 32768
    /\ bh.call.data = bits_as_bytes(bh.call.value, 32)
    /\ bh.call.result = "ok"
    /\ ba = bh.before

C16_FilledWitness ==
    /\ bh.call.op = "write_back"
    /\ bh.call.pos = Small(3)
    /\ bh.call.length = 5
    /\ bh.call.value # <<0, 0>>
    /\ bh.filled
    /\ ba.offset = 4
    /\ bh.call.result = "ok"

\* The bits of the buffer after copy_bits(pos, data, length): those of data
\* in the range, the old ones elsewhere.
Overwritten(old, pos, data, length) ==
    [i \in 1..Len(old) |->
        IF i > pos /\ i <= pos + length THEN BytesToBits(data)[i - pos]
        ELSE old[i]]

\* copy_bits did what C17 says.
FrameKept ==
    /\ bh.call.result = "ok"
    /\ ba.bits = Overwritten(bh.before.bits, bh.call.pos[2], bh.call.data,
                             bh.call.length)
    /\ Metadata(ba) = Metadata(bh.before)

\* A call of copy_bits in the domain of C17: pos + length <= bit_length and
\* data has length bits.
CopyInRange ==
    /\ bh.call.op = "copy_bits"
    /\ ArgsInDomain
    /\ ~PastEnd
    /\ 8 * Len(bh.call.data) >= bh.call.length

\* C17 as stated: copy_bits(pos, data, length) with pos + length <=
\* bit_length sets the bits pos .. pos+length-1 to the first length bits of
\* data and changes nothing else.
C17_CopyBitsFrame == CopyInRange => FrameKept

\* It holds for every length below 256.
C17_HoldsBelow256 == (CopyInRange /\ bh.call.length <= 255) => FrameKept

C17_UnalignedReached ==
    /\ CopyInRange
    /\ bh.call.pos = Small(3)
    /\ bh.call.length = 5
    /\ bh.call.data = <<90>>
    /\ FrameKept
    /\ ba.bits # bh.before.bits
    /\ \E i \in 4..8 : bh.before.bits[i] = 1 /\ ba.bits[i] = 0

C17_LongReached ==
    /\ CopyInRange
    /\ bh.call.length = 256
    /\ bh.call.result = "OverflowError"
    /\ bh.before.bit_len = 256

\* C18 as stated: bit_length <= 8 * size and length <= size in every state
\* of a BitArray.
C18_WithinCapacity ==
    bh.phase = "live" => (ba.bit_len <= 8 * ba.size /\ ba.len <= ba.size)

\* It holds for every BitArray compress did not fill and whose size was not
\* assigned.
C18_HoldsUnlessFilled ==
    (bh.phase = "live" /\ ~bh.filled /\ ~bh.sized) =>
        (ba.bit_len <= 8 * ba.size /\ ba.len <= ba.size)

\* The size of a BitArray was assigned 0 while it held two bytes.
C18_SizedReached ==
    /\ bh.phase = "live"
    /\ bh.call.op = "size_set"
    /\ ba.size = 0
    /\ ba.len = 2
    /\ ba.bit_len = 16

C18_OverflowReached ==
    /\ bh.phase = "live"
    /\ bh.filled
    /\ bh.call.op = "compress"
    /\ ba.len = ba.size + 1
    /\ ba.bit_len = 8 * ba.size + 4

\* The bytes needed for n bits, as the documentation of length has it.
bytes_needed(n) == IF n % 8 # 0 THEN (n \div 8) + 1 ELSE n \div 8

\* C19 as stated: length is the number of bytes needed for bit_length bits
\* in every state of a BitArray.
C19_LengthMatchesBitLength ==
    bh.phase = "live" => ba.len = bytes_needed(ba.bit_len)

\* It fails only for a BitArray as the construction from an integer leaves
\* it: some bytes long and no bit in use.
C19_HoldsUnlessSized ==
    (bh.phase = "live" /\ ~(ba.bit_len = 0 /\ ba.len # 0)) =>
        ba.len = bytes_needed(ba.bit_len)

C19_SizedReached ==
    /\ bh.phase = "live"
    /\ bh.call.op = "cinit_int"
    /\ ba.len = 2
    /\ ba.bit_len = 0

(***************************************************************************)
(* Part 6: the deployment of rules (libschc.pyx, Device._set_field,        *)
(* _set_layer_rule, _set_compression_rule; rules.c) and the send hook.     *)
(***************************************************************************)
MaxFields == 2

UDP_FIELDS == 4
COAP_FIELDS == 16

\* A Python int or a Py_ssize_t stored in a uint8_t.
Uint8(x) == x % 256

DeployOnly ==
    UNCHANGED <<regVars, timerVars, compVars, fragVars, bitVars>>

\* No call is under way.
Idle == [op |-> "idle"]

InitDeploy == dp = Idle

\* A byte string of n bytes.
ByteString(n) == [i \in 1..n |-> 1]

\* A descriptor _set_field accepts and copies within bounds, of direction d.
DirField(d) == Field("F", d, 8, "EQUAL", 0, "NOTSENT", ByteString(1))

\* The descriptors handed to _set_field: field_length and MO_param_length
\* over the range of a uint8_t, with and without a mapping, and target values
\* up to one byte longer than MAX_FIELD_LENGTH.
FieldInputs ==
    { Field("F", BI, len, mo, mop, action, ByteString(n)) :
        len \in {0, 8, 9, 64, 255}, mo \in {"EQUAL", "MATCHMAP"},
        mop \in {0, 1, 2, 5, 255}, action \in {"NOTSENT", "MAPPINGSENT"},
        n \in {0, 1, 2, 8, MAX_FIELD_LENGTH, MAX_FIELD_LENGTH + 1} }

\* The number of bytes _set_field copies with memcpy: target_value_len.
target_value_len(py_field) ==
    IF py_field.action = "MAPPINGSENT" \/ py_field.MO = "MATCHMAP"
    THEN BITS_TO_BYTES(Uint8(py_field.field_length))
             * Uint8(py_field.MO_param_length)
    ELSE BITS_TO_BYTES(Uint8(py_field.field_length))

\* Device._set_field raises ValueError iff the target value is longer than
\* MAX_FIELD_LENGTH.
set_field_raises(py_field) ==
    Len(py_field.target_value) > MAX_FIELD_LENGTH

\* Whether the memcpy of _set_field leaves the 32 bytes of
\* c_field.target_value or the bytes of the caller's value.
copy_out_of_bounds(py_field) ==
    \/ target_value_len(py_field) > MAX_FIELD_LENGTH
    \/ target_value_len(py_field) > Len(py_field.target_value)

\* What a call that ran into undefined behaviour comes to: the process goes
\* on, or it dies.
Outcomes(ub) == IF ub THEN {"ok", "crashed"} ELSE {"ok"}

\* Device._set_field(c_field, py_field)
DeployField(py_field) ==
    /\ DeployOnly
    /\ dp = Idle
    /\ IF set_field_raises(py_field)
       THEN dp' = [op |-> "field", field |-> py_field,
                   result |-> "ValueError", copied |-> 0]
       ELSE \E out \in Outcomes(copy_out_of_bounds(py_field)) :
                dp' = [op |-> "field", field |-> py_field, result |-> out,
                       copied |-> target_value_len(py_field)]

\* The lists of descriptors handed to _set_layer_rule: every list of up to
\* MaxFields directions, alone or followed by a run of descriptors that
\* brings it to a limit of a layer or to the range of a uint8_t.
ShortLists ==
    UNION { [1..n -> {UP, DOWN, BI}] : n \in 0..MaxFields }

PadLengths == {0, UDP_FIELDS, IP6_FIELDS, COAP_FIELDS, 255, 256,
               256 + COAP_FIELDS}

LayerFieldLists ==
    { [i \in 1..(Len(s) + k) |->
          IF i <= Len(s) THEN DirField(s[i]) ELSE DirField(BI)] :
        s \in ShortLists, k \in PadLengths }

LayerLimits == {IP6_FIELDS, UDP_FIELDS, COAP_FIELDS}

\* "cdef uint8_t length = len(fields)": the Py_ssize_t is stored in a
\* uint8_t.
list_length(fields) == Uint8(Len(fields))

\* The loop of _set_layer_rule: _set_field writes content[i] for every
\* descriptor up to the first it rejects, and each descriptor written
\* increments up unless its direction is DOWN and down unless its direction
\* is UP (uint8_t counters).
set_layer_rule_loop(fields) ==
    LET stop == IF \E i \in 1..Len(fields) : set_field_raises(fields[i])
                THEN CHOOSE i \in 1..Len(fields) :
                         /\ set_field_raises(fields[i])
                         /\ \A j \in 1..(i - 1) : ~set_field_raises(fields[j])
                ELSE Len(fields) + 1
        done == 1..(stop - 1)
    IN [raised |-> stop <= Len(fields),
        written |-> stop - 1,
        ub |-> \E i \in done : copy_out_of_bounds(fields[i]),
        up |-> Uint8(Cardinality({ i \in done : fields[i].dir # DOWN })),
        down |-> Uint8(Cardinality({ i \in done : fields[i].dir # UP }))]

\* Device._set_layer_rule(c_layer_rule, fields, max_fields): what it leaves
\* in the layer rule (up, down and length are assigned when the loop ran
\* through), the number of descriptors it wrote, and whether it wrote past
\* content[max_fields - 1] or copied out of bounds.
Device_set_layer_rule(fields, max_fields) ==
    IF list_length(fields) > max_fields
    THEN [raised |-> TRUE, written |-> 0, ub |-> FALSE, assigned |-> FALSE,
          up |-> 0, down |-> 0, length |-> 0]
    ELSE LET r == set_layer_rule_loop(fields)
         IN [raised |-> r.raised, written |-> r.written,
             ub |-> r.ub \/ r.written > max_fields,
             assigned |-> ~r.raised,
             up |-> IF r.raised THEN 0 ELSE r.up,
             down |-> IF r.raised THEN 0 ELSE r.down,
             length |-> IF r.raised THEN 0 ELSE list_length(fields)]

\* A layer rule is created and _set_layer_rule deploys fields in it.
DeployLayer(fields, max_fields) ==
    /\ DeployOnly
    /\ dp = Idle
    /\ \E c \in {Device_set_layer_rule(fields, max_fields)} :
       \E out \in Outcomes(c.ub) :
           dp' = [op |-> "layer", fields |-> fields,
                  max_fields |-> max_fields,
                  result |-> IF out = "crashed" THEN "crashed"
                             ELSE IF c.raised THEN "ValueError" ELSE "ok",
                  written |-> c.written, up |-> c.up, down |-> c.down,
                  length |-> c.length]

\* The number of descriptors of a list with a direction in D.
CountDirs(fields, D) ==
    Cardinality({ i \in 1..Len(fields) : fields[i].dir \in D })

\* A call of _set_layer_rule deployed the list.
LayerDeployed == dp.op = "layer" /\ dp.result = "ok"

\* C31: after a layer rule is deployed, up is the number of its descriptors
\* of direction UP or BI, down the number of direction DOWN or BI, and length
\* the number of descriptors.
C31_DerivedCounts ==
    LayerDeployed =>
        /\ dp.up = CountDirs(dp.fields, {UP, BI})
        /\ dp.down = CountDirs(dp.fields, {DOWN, BI})
        /\ dp.length = Len(dp.fields)
        /\ dp.up <= dp.length /\ dp.down <= dp.length
        /\ dp.up + dp.down >= dp.length

\* C31, for the lists that are not longer than the limit of the layer.
C31_WithinLimitHolds ==
    (LayerDeployed /\ Len(dp.fields) <= dp.max_fields) =>
        /\ dp.up = CountDirs(dp.fields, {UP, BI})
        /\ dp.down = CountDirs(dp.fields, {DOWN, BI})
        /\ dp.length = Len(dp.fields)

\* A list that fills the CoAP layer with descriptors of the three
\* directions was deployed.
C31_WithinLimitWitness ==
    /\ LayerDeployed /\ Len(dp.fields) = COAP_FIELDS
    /\ dp.max_fields = COAP_FIELDS
    /\ dp.up < dp.length /\ dp.down < dp.length

\* C32: a list longer than the limit of the layer is rejected with
\* ValueError, nothing is written past the end of the layer's array, and the
\* stored length never exceeds the limit.
C32_LongListsRejected ==
    /\ dp.op = "layer" =>
           /\ Len(dp.fields) > dp.max_fields => dp.result = "ValueError"
           /\ dp.written <= dp.max_fields
           /\ dp.length <= dp.max_fields
    /\ dp.op = "rules" =>
           \A i \in 1..Len(dp.rules) :
               (\/ Len(dp.rules[i].ipv6_rule) > IP6_FIELDS
                \/ Len(dp.rules[i].udp_rule) > UDP_FIELDS
                \/ Len(dp.rules[i].coap_rule) > COAP_FIELDS)
                   => dp.result = "ValueError"

\* C32, for a layer rule that is deployed by itself from a list shorter
\* than 256 descriptors.
C32_BelowUint8Holds ==
    (dp.op = "layer" /\ Len(dp.fields) < 256) =>
        /\ Len(dp.fields) > dp.max_fields => dp.result = "ValueError"
        /\ dp.written <= dp.max_fields
        /\ dp.length <= dp.max_fields

\* A list one descriptor longer than the limit of the layer was rejected.
C32_BelowUint8Witness ==
    /\ dp.op = "layer" /\ Len(dp.fields) = dp.max_fields + 1
    /\ dp.result = "ValueError"

\* C33: a call of _set_field that does not raise copies at most
\* MAX_FIELD_LENGTH bytes and at most as many bytes as the value has.
C33_CopyWithinBounds ==
    (dp.op = "field" /\ dp.result # "ValueError") =>
        /\ dp.copied <= MAX_FIELD_LENGTH
        /\ dp.copied <= Len(dp.field.target_value)

\* C33, the check the code makes: a value longer than MAX_FIELD_LENGTH is
\* rejected and nothing is copied.
C33_LongValueRejected ==
    (dp.op = "field" /\ Len(dp.field.target_value) > MAX_FIELD_LENGTH) =>
        dp.result = "ValueError" /\ dp.copied = 0

C33_LongValueWitness ==
    /\ dp.op = "field" /\ dp.result = "ValueError"
    /\ target_value_len(dp.field) <= MAX_FIELD_LENGTH

(***************************************************************************)
(* Compression rules with shared layer rules, and their release            *)
(* (libschc.pyx, Device._set_compression_rule and compression_rules;       *)
(* rules.c, schc_rules_free_compr_ctx).  A pointer is a positive number,   *)
(* 0 is NULL.                                                              *)
(***************************************************************************)
MaxRules == 2

LayerUp == << DirField(UP) >>
LayerDownBi == << DirField(DOWN), DirField(BI) >>
\* One descriptor more than the IPv6 layer holds.
LayerTooLong == [i \in 1..(IP6_FIELDS + 1) |-> DirField(BI)]

\* One descriptor more than the UDP layer holds.
LayerFive == [i \in 1..(UDP_FIELDS + 1) |-> DirField(BI)]

\* The compression rules handed to compression_rules: each layer absent, or
\* one of a few lists, among them lists longer than the layer's limit.
DeployRules ==
    { PyRule(1, 8, ip6, udp, coap) :
        ip6 \in {<<>>, LayerUp, LayerDownBi, LayerTooLong},
        udp \in {<<>>, LayerUp, LayerFive},
        coap \in {<<>>, LayerUp, LayerDownBi, LayerFive} }

DeployRuleLists ==
    UNION { [1..n -> DeployRules] : n \in 1..MaxRules }

\* The loop over layer_rules.items() in _set_compression_rule: the pointer
\* of the deployed layer rule whose list equals fields, 0 if there is none.
\* layer_rules is the dict in insertion order.
find_layer_rule(layer_rules, fields) ==
    IF \E i \in 1..Len(layer_rules) : layer_rules[i].rule = fields
    THEN layer_rules[CHOOSE i \in 1..Len(layer_rules) :
                         /\ layer_rules[i].rule = fields
                         /\ \A j \in (i + 1)..Len(layer_rules) :
                                layer_rules[j].rule # fields].ptr
    ELSE 0

\* One layer of _set_compression_rule.  st is the state of the deployment:
\* the dict layer_rules, the layer rules created so far (created[p] is the
\* list deployed in pointer p, pointers are handed out in order), whether
\* ValueError was raised and whether a write left its array.  The result is
\* the state afterwards and the pointer stored in the compression rule.
set_layer(st, fields, max_fields) ==
    IF st.raised \/ fields = <<>> THEN [st |-> st, ptr |-> 0]
    ELSE IF find_layer_rule(st.layer_rules, fields) # 0
    THEN [st |-> st, ptr |-> find_layer_rule(st.layer_rules, fields)]
    ELSE LET p == Len(st.created) + 1
             r == Device_set_layer_rule(fields, max_fields)
         IN [st |-> [layer_rules |->
                         IF r.raised THEN st.layer_rules
                         ELSE Append(st.layer_rules,
                                     [ptr |-> p, rule |-> fields]),
                     created |-> Append(st.created, fields),
                     raised |-> r.raised,
                     ub |-> st.ub \/ r.ub],
             ptr |-> p]

\* Device._set_compression_rule(layer_rules, c_rule, py_rule): the three
\* layers in the order ipv6, udp, coap.
Device_set_compression_rule(st, py_rule) ==
    LET a == set_layer(st, py_rule.ipv6_rule, IP6_FIELDS)
        b == set_layer(a.st, py_rule.udp_rule, UDP_FIELDS)
        c == set_layer(b.st, py_rule.coap_rule, COAP_FIELDS)
    IN [st |-> c.st,
        c_rule |-> [ipv6_rule |-> a.ptr, udp_rule |-> b.ptr,
                    coap_rule |-> c.ptr]]

\* schc_rules_create_compr_ctx(n): n compression rules, all pointers NULL.
schc_rules_create_compr_ctx(n) ==
    [i \in 1..n |-> [ipv6_rule |-> 0, udp_rule |-> 0, coap_rule |-> 0]]

\* The loop of compression_rules.__set__ from rule i on; it ends at the
\* first rule that raises.
RECURSIVE set_rules_loop(_, _, _, _)
set_rules_loop(rules, i, st, context) ==
    IF i > Len(rules) \/ st.raised THEN [st |-> st, context |-> context]
    ELSE LET r == Device_set_compression_rule(st, rules[i])
         IN set_rules_loop(rules, i + 1, r.st,
                           [context EXCEPT ![i] = r.c_rule])

never_already_freed(rule, freed) == FALSE

\* _already_freed(rule, freed_layer_rules): whether the pointer is among the
\* pointers freed so far.
already_freed(rule, freed) == \E i \in 1..Len(freed) : freed[i] = rule

\* One layer pointer of _free_compr_rule: free() is called on it unless it
\* is NULL or _already_freed finds it; _already_freed records it.  fr is the
\* sequence of the calls of free() on layer rules, freed the array
\* freed_layer_rules.
free_layer(acc, rule) ==
    IF rule = 0 THEN acc
    ELSE IF already_freed(rule, acc.freed) THEN acc
    ELSE [acc EXCEPT !.fr = Append(@, rule), !.freed = Append(@, rule)]

\* _free_compr_rule(ctx, freed_layer_rules) on the i-th rule of the context:
\* the three layers, then the compression rule itself.
free_compr_rule(acc, c_rule, i) ==
    [free_layer(free_layer(free_layer(acc, c_rule.ipv6_rule),
                           c_rule.udp_rule), c_rule.coap_rule)
        EXCEPT !.ctx_fr = Append(@, i)]

\* The loop of schc_rules_free_compr_ctx from rule i on.
RECURSIVE free_compr_ctx_loop(_, _, _)
free_compr_ctx_loop(context, i, acc) ==
    IF i > Len(context) THEN acc
    ELSE free_compr_ctx_loop(context, i + 1,
                             free_compr_rule(acc, context[i], i))

\* schc_rules_free_compr_ctx(ctx, rule_count): the calls of free() on layer
\* rules (fr) and on compression rules (ctx_fr, by index), in order.
free_compr_ctx(context) ==
    free_compr_ctx_loop(context, 1,
                        [fr |-> <<>>, freed |-> <<>>, ctx_fr |-> <<>>])

\* The number of calls of free() on pointer p.
TimesFreed(fr, p) == Cardinality({ i \in 1..Len(fr) : fr[i] = p })

\* device.compression_rules = rules on a device without rules: the context
\* is created and the rules are deployed; if a rule raises, the context is
\* freed at once.
DeployCompressionRules(rules) ==
    /\ DeployOnly
    /\ dp = Idle
    /\ \E d \in {set_rules_loop(rules, 1,
                     [layer_rules |-> <<>>, created |-> <<>>,
                      raised |-> FALSE, ub |-> FALSE],
                     schc_rules_create_compr_ctx(Len(rules)))} :
           dp' = [op |-> "rules", rules |-> rules, context |-> d.context,
                  created |-> d.st.created,
                  result |-> IF d.st.raised THEN "ValueError" ELSE "ok",
                  freed |-> d.st.raised,
                  fr |-> IF d.st.raised THEN free_compr_ctx(d.context).fr
                         ELSE <<>>,
                  ctx_fr |-> IF d.st.raised
                             THEN free_compr_ctx(d.context).ctx_fr
                             ELSE <<>>]

\* The context of the device is freed: del device.compression_rules, the
\* next assignment, or unregister().
FreeCompressionRules ==
    /\ DeployOnly
    /\ dp.op = "rules" /\ ~dp.freed
    /\ dp' = [dp EXCEPT !.freed = TRUE,
                        !.fr = free_compr_ctx(dp.context).fr,
                        !.ctx_fr = free_compr_ctx(dp.context).ctx_fr]

\* The layer lists of the rules of a deployed context and the pointers they
\* were given.
LayerRefs ==
    { <<dp.rules[i].ipv6_rule, dp.context[i].ipv6_rule>> :
          i \in 1..Len(dp.rules) }
    \cup { <<dp.rules[i].udp_rule, dp.context[i].udp_rule>> :
               i \in 1..Len(dp.rules) }
    \cup { <<dp.rules[i].coap_rule, dp.context[i].coap_rule>> :
               i \in 1..Len(dp.rules) }

\* C34: in a deployed context equal layer lists have one layer rule and
\* different lists have different ones; and when a context is freed, every
\* layer rule that was created and every compression rule of the context is
\* freed exactly once.
C34_SharedAndFreedOnce ==
    dp.op = "rules" =>
        /\ dp.result = "ok" =>
               \A x, y \in LayerRefs :
                   /\ (x[1] = <<>>) <=> (x[2] = 0)
                   /\ (x[1] = y[1]) <=> (x[2] = y[2])
        /\ dp.freed =>
               /\ \A p \in 1..Len(dp.created) : TimesFreed(dp.fr, p) = 1
               /\ \A i \in 1..Len(dp.context) :
                      TimesFreed(dp.ctx_fr, i) = 1

\* C34 witness: a context of two rules that share a layer rule between them,
\* and one within a rule across layers, was deployed and freed.
C34_Witness ==
    /\ dp.op = "rules" /\ dp.result = "ok" /\ dp.freed
    /\ Len(dp.context) >= 2
    /\ dp.context[1].ipv6_rule # 0
    /\ dp.context[1].ipv6_rule = dp.context[2].coap_rule
    /\ dp.context[2].ipv6_rule # 0
    /\ dp.context[2].ipv6_rule = dp.context[2].udp_rule
    /\ Len(dp.created) = 2

\* C34 witness: a context whose second rule was rejected after a layer rule
\* of the first had been shared was freed by the assignment.
C34_RejectedWitness ==
    /\ dp.op = "rules" /\ dp.result = "ValueError" /\ dp.freed
    /\ Len(dp.context) >= 2
    /\ dp.context[1].ipv6_rule # 0
    /\ dp.context[1].ipv6_rule = dp.context[1].coap_rule
    /\ dp.context[2].ipv6_rule > dp.context[1].ipv6_rule

(***************************************************************************)
(* The send hook (libschc.pyx, FragmentationConnection._send).             *)
(***************************************************************************)
\* What the callback registered with register_send reports: the number of
\* bytes sent, for every datagram length up to MAX_MTU_LENGTH, or 0 for a
\* failure.
SendReports == 0..MAX_MTU_LENGTH

\* "<uint8_t>obj" for a Python int: the value if it is one of a uint8_t,
\* OverflowError otherwise.
as_uint8_t(n) ==
    IF n \in 0..255 THEN [raised |-> FALSE, value |-> n]
    ELSE [raised |-> TRUE, value |-> 0]

\* FragmentationConnection._send(data, length, device_id): the report of
\* the callback converted to uint8_t.  _send is a cdef function that returns
\* a uint8_t and declares no exception value: an exception raised in it
\* (ProcessLookupError without a callback, the callback's own, the
\* OverflowError of the conversion) is written out and dropped, and the
\* caller receives 0.
FragmentationConnection_send(registered, n) ==
    IF registered
    THEN IF as_uint8_t(n).raised THEN 0 ELSE as_uint8_t(n).value
    ELSE 0

\* The engine calls the send hook of a connection; the callback of the
\* device, if one is registered, reports n bytes sent.
SendHook(registered, n) ==
    /\ DeployOnly
    /\ dp = Idle
    /\ dp' = [op |-> "send", registered |-> registered, n |-> n,
              result |-> "ok",
              seen |-> FragmentationConnection_send(registered, n)]

\* C39: a registered callback that reports n bytes sent, 0 < n <=
\* MAX_MTU_LENGTH, is seen by the engine as a send that did not fail: the
\* hook returns a value other than 0.
C39_SendReportReachesEngine ==
    (dp.op = "send" /\ dp.registered /\ dp.n > 0) => dp.seen # 0

\* C39, for the reports that are values of a uint8_t: the engine sees the
\* report itself.
C39_BelowUint8Holds ==
    (dp.op = "send" /\ dp.registered /\ dp.n < 256) => dp.seen = dp.n

C39_BelowUint8Witness ==
    dp.op = "send" /\ dp.registered /\ dp.n = 255 /\ dp.seen = 255

\* The caller has the result of the call (it does not, if the process
\* died) and is free to make the next one.
DeployReturn ==
    /\ DeployOnly
    /\ dp # Idle
    /\ dp.result # "crashed"
    /\ dp' = Idle

NextDeploy ==
    \/ /\ dp = Idle
       /\ \/ \E py_field \in FieldInputs : DeployField(py_field)
          \/ \E fields \in LayerFieldLists, max_fields \in LayerLimits :
                 DeployLayer(fields, max_fields)
          \/ \E rules \in DeployRuleLists : DeployCompressionRules(rules)
          \/ \E registered \in BOOLEAN, n \in SendReports :
                 SendHook(registered, n)
    \/ FreeCompressionRules
    \/ DeployReturn

(***************************************************************************)
(* Specifications.                                                         *)
(***************************************************************************)
InitAll ==
    /\ InitRegistry /\ InitTimer /\ InitComp /\ InitFrag /\ InitBits
    /\ InitDeploy

SpecRegistry == InitAll /\ [][NextRegistry]_vars

SpecTimer == InitAll /\ [][NextTimer]_vars

SpecReassemble == InitAll /\ [][NextReassemble]_vars

SpecComp == InitAll /\ [][NextComp]_vars

SpecFrag == InitAll /\ [][NextFrag]_vars

SpecFragSender == InitAll /\ [][NextFragSender]_vars

SpecFragShuffle == InitAll /\ [][NextFragShuffle]_vars

SpecFragCorrupt == InitAll /\ [][NextFragCorrupt]_vars

SpecBits == InitAll /\ [][NextBits]_vars

SpecDeploy == InitAll /\ [][NextDeploy]_vars

\* Time passes: a timer of the sender that is due runs out (the
\* retransmission timer whatever is in flight), and the oldest datagram in
\* flight is handed over or, an ACK, lost.
FragProgress ==
    \/ TxSendNext
    \/ TxRetransTimeout
    \/ TxResend
    \/ RxInput(1)
    \/ TxInput
    \/ AckLost

\* One transfer that the application lets run, over a link that delivers in
\* order and corrupts nothing.
NextFragFaithful ==
    \/ \E mode \in Modes \cup {"NOT_FRAGMENTED"}, n \in 1..MaxLen,
          mtu \in MTUs : FragInitFresh(mode, n, mtu)
    \/ FragFragment
    \/ FragProgress

SpecFragFair ==
    InitAll /\ [][NextFragFaithful]_vars /\ WF_vars(FragProgress)

\* One transfer that the application lets run, over a link that loses one
\* fragment at most and nothing else and delivers in order; every timer
\* runs out, the retransmission timer whatever is in flight, and every
\* datagram in flight is handed over in the end.
FragDelivery ==
    \/ TxSendNext
    \/ TxRetransTimeout
    \/ TxResend
    \/ RxInput(1)
    \/ TxInput

NextFragLossy ==
    \/ \E mode \in Modes \cup {"NOT_FRAGMENTED"}, n \in 1..MaxLen,
          mtu \in MTUs : FragInitFresh(mode, n, mtu)
    \/ FragFragment
    \/ \E i \in 1..MaxLen : FragLost(i)
    \/ FragDelivery

SpecFragLossy ==
    InitAll /\ [][NextFragLossy]_vars /\ WF_vars(FragDelivery)

\* Every duty-cycle timer task of the sender is run in the end; nothing is
\* assumed of the receiver or of the link.
SpecFragTimers ==
    InitAll /\ [][NextFragFaithful]_vars /\ WF_vars(TxSendNext)

=============================================================================
